---- MODULE Spec2Model ----
(***************************************************************************)
(* Quadrant algebra of p4est / p8est (src/src/p8est_search.h, the part     *)
(* that is p4est_bits.c): total order, Morton linear id, parent / children *)
(* / family / sibling / ancestor predicates, successor test, nearest       *)
(* common ancestor, face and corner operations, the face and node          *)
(* transforms and the test of a quadrant against a tree's range.  Each of  *)
(* these is a pure function of its inputs; a specification draws the       *)
(* inputs in Init and applies the operations in its actions.               *)
(*                                                                         *)
(* The search primitives declared in the header (p8est_find_lower_bound,   *)
(* p8est_find_higher_bound, p8est_split_array, p8est_search) work on arr,  *)
(* a sorted array of quadrants.  The search is a state machine: stack      *)
(* holds the pending nodes of its recursion and calls the history of the   *)
(* callback invocations.                                                   *)
(*                                                                         *)
(* Machine integers.  p4est_qcoord_t is a 32 bit two's complement integer  *)
(* and is kept at its real width: a coordinate is a TLA+ integer in        *)
(* -2^31 .. 2^31-1 and the bit operations are defined on its 32 bits.      *)
(* uint64_t linear ids are kept as the set of their set bit positions      *)
(* (a subset of 0..63), which is exact and needs no number above 2^31.     *)
(***************************************************************************)
EXTENDS Integers, FiniteSets, Sequences, TLC

VARIABLES dim, qa, qb, qc, qd, lev, arg, tags, arr, stack, calls, op, out

vars == <<dim, qa, qb, qc, qd, lev, arg, tags, arr, stack, calls, op, out>>

(***************************************************************************)
(* Bounds of the model.                                                    *)
(***************************************************************************)
\* valid quadrants are enumerated completely for the levels 0..MaxLevV
MaxLevV == 3
\* extended quadrants (3x3 domain) are enumerated completely for 0..MaxLevE
MaxLevE == 1
\* extended quadrants enumerated for the single-quadrant checks
MaxLevM == 2

(***************************************************************************)
(* Numeric domain constants (p4est.h / p8est.h).                           *)
(***************************************************************************)
Pow2(n) == 2 ^ n

P4EST_MAXLEVEL(D) == IF D = 2 THEN 30 ELSE 19

P4EST_QMAXLEVEL(D) == P4EST_MAXLEVEL(D) - 1

P4EST_ROOT_LEN(D) == Pow2(P4EST_MAXLEVEL(D))

P4EST_QUADRANT_LEN(D, l) == Pow2(P4EST_MAXLEVEL(D) - l)

P4EST_CHILDREN(D) == Pow2(D)

(***************************************************************************)
(* 32 bit two's complement arithmetic on p4est_qcoord_t / uint32_t.        *)
(***************************************************************************)
\* bit i of the (sign extended) two's complement representation of v
Bit(v, i) == IF i >= 31 THEN (IF v < 0 THEN 1 ELSE 0) ELSE (v \div Pow2(i)) % 2

RECURSIVE SumBits(_, _)
SumBits(f, i) == IF i < 0 THEN 0 ELSE f[i] * Pow2(i) + SumBits(f, i - 1)

\* the int32 value with the given 32 bits
FromBits32(f) ==
  IF f[31] = 1 THEN (SumBits(f, 30) - Pow2(30)) - Pow2(30) ELSE SumBits(f, 30)

\* ~a
Not32(a) == IF a >= 0 THEN (-a) - 1 ELSE -(a + 1)

\* a & b, a | b, a ^ b on two bytes (0..255)
AndByte(a, b) ==
    (a % 2) * (b % 2)
  + 2 * (((a \div 2) % 2) * ((b \div 2) % 2))
  + 4 * (((a \div 4) % 2) * ((b \div 4) % 2))
  + 8 * (((a \div 8) % 2) * ((b \div 8) % 2))
  + 16 * (((a \div 16) % 2) * ((b \div 16) % 2))
  + 32 * (((a \div 32) % 2) * ((b \div 32) % 2))
  + 64 * (((a \div 64) % 2) * ((b \div 64) % 2))
  + 128 * ((a \div 128) * (b \div 128))

OrByte(a, b) == (a + b) - AndByte(a, b)

XorByte(a, b) == (a + b) - 2 * AndByte(a, b)

\* byte k (0..3) of the two's complement representation of v
Byte(v, k) == (v \div Pow2(8 * k)) % 256

\* the signed value of a top byte
SignedByte(t) == IF t >= 128 THEN t - 256 ELSE t

\* a & b on two's complement values, byte by byte
And32(a, b) ==
  IF a = 0 \/ b = 0 THEN 0
  ELSE IF a = -1 THEN b
  ELSE IF b = -1 THEN a
  ELSE AndByte(Byte(a, 0), Byte(b, 0))
     + 256 * AndByte(Byte(a, 1), Byte(b, 1))
     + 65536 * AndByte(Byte(a, 2), Byte(b, 2))
     + 16777216 * SignedByte(AndByte(Byte(a, 3), Byte(b, 3)))

\* a | b
Or32(a, b) ==
  IF a = 0 THEN b
  ELSE IF b = 0 THEN a
  ELSE IF a = -1 \/ b = -1 THEN -1
  ELSE OrByte(Byte(a, 0), Byte(b, 0))
     + 256 * OrByte(Byte(a, 1), Byte(b, 1))
     + 65536 * OrByte(Byte(a, 2), Byte(b, 2))
     + 16777216 * SignedByte(OrByte(Byte(a, 3), Byte(b, 3)))

\* a ^ b
Xor32(a, b) ==
  IF a = b THEN 0
  ELSE IF a = 0 THEN b
  ELSE IF b = 0 THEN a
  ELSE IF a = -1 THEN Not32(b)
  ELSE IF b = -1 THEN Not32(a)
  ELSE XorByte(Byte(a, 0), Byte(b, 0))
     + 256 * XorByte(Byte(a, 1), Byte(b, 1))
     + 65536 * XorByte(Byte(a, 2), Byte(b, 2))
     + 16777216 * SignedByte(XorByte(Byte(a, 3), Byte(b, 3)))

\* the forms with a power of two h = 2^k (k <= 30), as the code uses them with
\* h = P4EST_QUADRANT_LEN (level) or h = 1 << maxlevel
\* v & h
AndBit(v, h) == ((v \div h) % 2) * h

\* v & ~h
AndNotBit(v, h) == v - AndBit(v, h)

\* v | h
OrBit(v, h) == v + (h - AndBit(v, h))

\* v & (h - 1)
AndLow(v, h) == v % h

\* v & ~(h - 1)
AndNotLow(v, h) == v - (v % h)

\* v << s in 32 bits (bits shifted beyond bit 31 are lost)
Shl32(v, s) == FromBits32([i \in 0..31 |-> IF i >= s THEN Bit(v, i - s) ELSE 0])

\* v >> s of a signed value: the arithmetic shift every supported build uses
Sar32(v, s) == v \div Pow2(s)

\* a + b in 32 bits, wrapping
Add32(a, b) ==
  IF a > 0 /\ b > 0 /\ a > 2147483647 - b
    THEN ((a - Pow2(30)) - Pow2(30)) + (b - Pow2(30)) - Pow2(30)
    ELSE IF a < 0 /\ b < 0 /\ a < (-2147483647 - 1) - b
      THEN ((a + Pow2(30)) + Pow2(30)) + (b + Pow2(30)) + Pow2(30)
      ELSE a + b

\* SC_LOG2_32 of the uint32_t with the bits of v: highest set bit, -1 for 0
SC_LOG2_32(v) ==
  IF v = 0 THEN -1
  ELSE IF v < 0 THEN 31
  ELSE CHOOSE i \in 0..30 : Pow2(i) <= v /\ (i = 30 \/ v < Pow2(i + 1))

(***************************************************************************)
(* uint64_t values as sets of bit positions.                               *)
(***************************************************************************)
U64Less(i1, i2) ==
  LET d == (i1 \ i2) \cup (i2 \ i1)
  IN  d # {} /\ (CHOOSE m \in d : \A k \in d : k <= m) \in i2

\* i + 1 modulo 2^64
U64Succ(i) ==
  LET z == (0..63) \ i
  IN  IF z = {} THEN {}
      ELSE LET k == CHOOSE m \in z : \A j \in z : m <= j
           IN  {j \in i : j > k} \cup {k}

\* i < 2^n
U64Below(i, n) == \A k \in i : k < n

(***************************************************************************)
(* Quadrants.                                                              *)
(***************************************************************************)
Quad(x, y, z, l) == [x |-> x, y |-> y, z |-> z, level |-> l]

NoQuad == Quad(0, 0, 0, -1)

p4est_quadrant_is_inside_root(D, q) ==
  /\ q.x >= 0 /\ q.x < P4EST_ROOT_LEN(D)
  /\ q.y >= 0 /\ q.y < P4EST_ROOT_LEN(D)
  /\ (D = 3 => q.z >= 0 /\ q.z < P4EST_ROOT_LEN(D))

p4est_quadrant_is_inside_3x3(D, q) ==
  /\ q.x >= -P4EST_ROOT_LEN(D)
  /\ q.x <= P4EST_ROOT_LEN(D) + (P4EST_ROOT_LEN(D) - 1)
  /\ q.y >= -P4EST_ROOT_LEN(D)
  /\ q.y <= P4EST_ROOT_LEN(D) + (P4EST_ROOT_LEN(D) - 1)
  /\ (D = 3 => /\ q.z >= -P4EST_ROOT_LEN(D)
               /\ q.z <= P4EST_ROOT_LEN(D) + (P4EST_ROOT_LEN(D) - 1))

Aligned(D, q) ==
  /\ q.level >= 0 /\ q.level <= P4EST_QMAXLEVEL(D)
  /\ AndLow(q.x, P4EST_QUADRANT_LEN(D, q.level)) = 0
  /\ AndLow(q.y, P4EST_QUADRANT_LEN(D, q.level)) = 0
  /\ (D = 3 => AndLow(q.z, P4EST_QUADRANT_LEN(D, q.level)) = 0)

p4est_quadrant_is_valid(D, q) == Aligned(D, q) /\ p4est_quadrant_is_inside_root(D, q)

p4est_quadrant_is_extended(D, q) == Aligned(D, q) /\ p4est_quadrant_is_inside_3x3(D, q)

(***************************************************************************)
(* Linear id and its decoding.                                             *)
(***************************************************************************)
p4est_quadrant_linear_id_pre(D, q, level) ==
  p4est_quadrant_is_extended(D, q) /\ q.level >= level /\ level >= 0

\* mutant: the y bits are shifted like the x bits (the "+ 1" is missing)
linear_id_SameShift(D, q, level) ==
  LET x == Sar32(q.x, P4EST_MAXLEVEL(D) - level)
      y == Sar32(q.y, P4EST_MAXLEVEL(D) - level)
      z == Sar32(q.z, P4EST_MAXLEVEL(D) - level)
      I == 0..(level + 1)
  IN  {(D - 1) * i + i : i \in {j \in I : Bit(x, j) = 1 \/ Bit(y, j) = 1}}
        \cup (IF D = 3
                THEN {(D - 1) * i + 2 + i : i \in {j \in I : Bit(z, j) = 1}}
                ELSE {})

p4est_quadrant_linear_id(D, q, level) ==
  LET x == Sar32(q.x, P4EST_MAXLEVEL(D) - level)
      y == Sar32(q.y, P4EST_MAXLEVEL(D) - level)
      z == Sar32(q.z, P4EST_MAXLEVEL(D) - level)
      I == 0..(level + 1)
      id == {(D - 1) * i + i : i \in {j \in I : Bit(x, j) = 1}}
              \cup {(D - 1) * i + 1 + i : i \in {j \in I : Bit(y, j) = 1}}
              \cup (IF D = 3
                      THEN {(D - 1) * i + 2 + i : i \in {j \in I : Bit(z, j) = 1}}
                      ELSE {})
  IN  {k \in id : k <= 63}

p4est_quadrant_set_morton_pre(D, level, id) ==
  /\ 0 <= level /\ level <= P4EST_QMAXLEVEL(D)
  /\ (level < P4EST_QMAXLEVEL(D) => U64Below(id, D * (level + 2)))

\* mutant: the 3D sign correction after the shift is missing
MortonCoord_NoSignFix(D, level, id, a) ==
  Shl32(SumBits([i \in 0..30 |->
                   IF i < level + 2 /\ (D * i + a) \in id THEN 1 ELSE 0], 30),
        P4EST_MAXLEVEL(D) - level)

\* the coordinate on axis a (0 = x, 1 = y, 2 = z) decoded from id
MortonCoord(D, level, id, a) ==
  LET c == SumBits([i \in 0..30 |->
                      IF i < level + 2 /\ (D * i + a) \in id THEN 1 ELSE 0], 30)
      s == Shl32(c, P4EST_MAXLEVEL(D) - level)
  IN  IF D = 3 /\ s >= Pow2(P4EST_MAXLEVEL(D) + 1)
        THEN s - Pow2(P4EST_MAXLEVEL(D) + 2)
        ELSE s

p4est_quadrant_set_morton(D, level, id) ==
  Quad(MortonCoord(D, level, id, 0),
       MortonCoord(D, level, id, 1),
       IF D = 3 THEN MortonCoord(D, level, id, 2) ELSE 0,
       level)

(***************************************************************************)
(* Equality and the total order.                                           *)
(***************************************************************************)
\* mutant: the y coordinate is not compared
is_equal_NoY(D, q1, q2) ==
  /\ q1.level = q2.level /\ q1.x = q2.x
  /\ (D = 3 => q1.z = q2.z)

p4est_quadrant_is_equal(D, q1, q2) ==
  /\ q1.level = q2.level /\ q1.x = q2.x /\ q1.y = q2.y
  /\ (D = 3 => q1.z = q2.z)

\* mutant: negative values are raised by 1 << (MAXLEVEL + 1) only
ComparePos_OffByOne(D, v) ==
  IF v >= 0
    THEN (v - Pow2(30)) - Pow2(30)
    ELSE IF D = 2
      THEN v
      ELSE ((v + Pow2(P4EST_MAXLEVEL(D) + 1)) - Pow2(30)) - Pow2(30)

\* p = v + ((v >= 0) ? 0 : 1 << (MAXLEVEL + 2)) of the int64_t comparison,
\* given here as p - 2^31 so that the 2D value (up to 2^32) stays representable;
\* the common offset changes neither the sign of p1 - p2 nor p1 = p2
ComparePos(D, v) ==
  IF v >= 0
    THEN (v - Pow2(30)) - Pow2(30)
    ELSE IF D = 2
      THEN (v + Pow2(30)) + Pow2(30)
      ELSE ((v + Pow2(P4EST_MAXLEVEL(D) + 2)) - Pow2(30)) - Pow2(30)

\* diff = p1 - p2; return (diff == 0) ? 0 : ((diff < 0) ? -1 : 1)
CompareSign(p1, p2) == IF p1 = p2 THEN 0 ELSE IF p1 < p2 THEN -1 ELSE 1

\* mutant: x decides when the two logarithms are equal
CompareAxis_StrictY(D, q1, q2, log2x, log2y, log2z) ==
  IF D = 3 /\ log2z >= log2x /\ log2z >= log2y
    THEN CompareSign(ComparePos(D, q1.z), ComparePos(D, q2.z))
  ELSE IF log2y > log2x
    THEN CompareSign(ComparePos(D, q1.y), ComparePos(D, q2.y))
  ELSE CompareSign(ComparePos(D, q1.x), ComparePos(D, q2.x))

\* the else branch of compare, for the logarithms of the three exclusive ors
CompareAxis(D, q1, q2, log2x, log2y, log2z) ==
  IF D = 3 /\ log2z >= log2x /\ log2z >= log2y
    THEN CompareSign(ComparePos(D, q1.z), ComparePos(D, q2.z))
  ELSE IF log2y >= log2x
    THEN CompareSign(ComparePos(D, q1.y), ComparePos(D, q2.y))
  ELSE CompareSign(ComparePos(D, q1.x), ComparePos(D, q2.x))

\* compare for the exclusive ors of the coordinates
CompareXor(D, q1, q2, exclorx, exclory, exclorz) ==
  IF exclory = 0 /\ exclorx = 0 /\ exclorz = 0
    THEN q1.level - q2.level
    ELSE CompareAxis(D, q1, q2, SC_LOG2_32(exclorx), SC_LOG2_32(exclory),
                     SC_LOG2_32(exclorz))

p4est_quadrant_compare(D, q1, q2) ==
  CompareXor(D, q1, q2, Xor32(q1.x, q2.x), Xor32(q1.y, q2.y),
             IF D = 3 THEN Xor32(q1.z, q2.z) ELSE 0)

(***************************************************************************)
(* Parent, children, child index, family.                                  *)
(***************************************************************************)
p4est_quadrant_ancestor_id_pre(D, q, level) ==
  /\ p4est_quadrant_is_extended(D, q)
  /\ 0 <= level /\ level <= P4EST_MAXLEVEL(D)
  /\ q.level >= level

\* mutant: the bit of the quadrant's own level is tested
ancestor_id_OwnLevel(D, q, level) ==
  IF level = 0 THEN 0
  ELSE (IF AndBit(q.x, P4EST_QUADRANT_LEN(D, q.level)) # 0 THEN 1 ELSE 0)
       + (IF AndBit(q.y, P4EST_QUADRANT_LEN(D, q.level)) # 0 THEN 2 ELSE 0)
       + (IF D = 3 /\ AndBit(q.z, P4EST_QUADRANT_LEN(D, q.level)) # 0 THEN 4 ELSE 0)

p4est_quadrant_ancestor_id(D, q, level) ==
  IF level = 0 THEN 0
  ELSE (IF AndBit(q.x, P4EST_QUADRANT_LEN(D, level)) # 0 THEN 1 ELSE 0)
       + (IF AndBit(q.y, P4EST_QUADRANT_LEN(D, level)) # 0 THEN 2 ELSE 0)
       + (IF D = 3 /\ AndBit(q.z, P4EST_QUADRANT_LEN(D, level)) # 0 THEN 4 ELSE 0)

p4est_quadrant_child_id(D, q) == p4est_quadrant_ancestor_id(D, q, q.level)

p4est_quadrant_parent_pre(D, q) == p4est_quadrant_is_extended(D, q) /\ q.level > 0

p4est_quadrant_parent(D, q) ==
  Quad(AndNotBit(q.x, P4EST_QUADRANT_LEN(D, q.level)),
       AndNotBit(q.y, P4EST_QUADRANT_LEN(D, q.level)),
       IF D = 3 THEN AndNotBit(q.z, P4EST_QUADRANT_LEN(D, q.level)) ELSE q.z,
       q.level - 1)

\* 2D only
p4est_quadrant_is_family(q0, q1, q2, q3) ==
  LET level == q0.level
      inc == P4EST_QUADRANT_LEN(2, level)
  IN  IF level = 0 \/ level # q1.level \/ level # q2.level \/ level # q3.level
        THEN FALSE
        ELSE /\ Add32(q0.x, inc) = q1.x /\ q0.y = q1.y
             /\ q0.x = q2.x /\ Add32(q0.y, inc) = q2.y
             /\ q1.x = q3.x /\ q2.y = q3.y

p4est_quadrant_children_pre(q) ==
  p4est_quadrant_is_extended(2, q) /\ q.level < P4EST_QMAXLEVEL(2)

\* mutant: c2 gets its bit on the x axis
children_C2OnX(q) ==
  LET l == q.level + 1
      c0 == Quad(q.x, q.y, q.z, l)
      c1 == Quad(OrBit(c0.x, P4EST_QUADRANT_LEN(2, l)), c0.y, q.z, l)
      c2 == Quad(OrBit(c0.x, P4EST_QUADRANT_LEN(2, l)), c0.y, q.z, l)
      c3 == Quad(c1.x, c2.y, q.z, l)
  IN  <<c0, c1, c2, c3>>

\* 2D only: the sequence <<c0, c1, c2, c3>>
p4est_quadrant_children(q) ==
  LET l == q.level + 1
      c0 == Quad(q.x, q.y, q.z, l)
      c1 == Quad(OrBit(c0.x, P4EST_QUADRANT_LEN(2, l)), c0.y, q.z, l)
      c2 == Quad(c0.x, OrBit(c0.y, P4EST_QUADRANT_LEN(2, l)), q.z, l)
      c3 == Quad(c1.x, c2.y, q.z, l)
  IN  <<c0, c1, c2, c3>>

(***************************************************************************)
(* Ancestor and successor tests.                                           *)
(***************************************************************************)
\* mutant: quadrants of equal level pass the level test
is_ancestor_LevelLeq(D, q, r) ==
  IF q.level > r.level THEN FALSE
  ELSE /\ Sar32(Xor32(q.x, r.x), P4EST_MAXLEVEL(D) - q.level) = 0
       /\ Sar32(Xor32(q.y, r.y), P4EST_MAXLEVEL(D) - q.level) = 0
       /\ (D = 3 => Sar32(Xor32(q.z, r.z), P4EST_MAXLEVEL(D) - q.level) = 0)

p4est_quadrant_is_ancestor(D, q, r) ==
  IF q.level >= r.level THEN FALSE
  ELSE LET exclorx == Sar32(Xor32(q.x, r.x), P4EST_MAXLEVEL(D) - q.level)
           exclory == Sar32(Xor32(q.y, r.y), P4EST_MAXLEVEL(D) - q.level)
           exclorz == IF D = 3
                        THEN Sar32(Xor32(q.z, r.z), P4EST_MAXLEVEL(D) - q.level)
                        ELSE 0
       IN  exclorx = 0 /\ exclory = 0 /\ exclorz = 0

\* mutant: the ids are compared for equality (the "+ 1" is missing)
is_next_SameId(D, q, r) ==
  LET mask == P4EST_QUADRANT_LEN(D, r.level) - P4EST_QUADRANT_LEN(D, q.level)
      notlast == \/ And32(q.x, mask) # mask
                 \/ And32(q.y, mask) # mask
                 \/ (D = 3 /\ And32(q.z, mask) # mask)
      minlevel == IF q.level > r.level THEN r.level ELSE q.level
  IN  IF q.level > r.level /\ notlast THEN FALSE
      ELSE p4est_quadrant_linear_id(D, q, minlevel)
             = p4est_quadrant_linear_id(D, r, minlevel)

\* mutant: the last-child mask test is missing
is_next_NoMask(D, q, r) ==
  LET minlevel == IF q.level > r.level THEN r.level ELSE q.level
  IN  U64Succ(p4est_quadrant_linear_id(D, q, minlevel))
        = p4est_quadrant_linear_id(D, r, minlevel)

p4est_quadrant_is_next(D, q, r) ==
  LET mask == P4EST_QUADRANT_LEN(D, r.level) - P4EST_QUADRANT_LEN(D, q.level)
      notlast == \/ And32(q.x, mask) # mask
                 \/ And32(q.y, mask) # mask
                 \/ (D = 3 /\ And32(q.z, mask) # mask)
      minlevel == IF q.level > r.level THEN r.level ELSE q.level
  IN  IF q.level > r.level /\ notlast THEN FALSE
      ELSE U64Succ(p4est_quadrant_linear_id(D, q, minlevel))
             = p4est_quadrant_linear_id(D, r, minlevel)

\* the while loop of is_next_D: [ok |-> FALSE] for the early return false,
\* else the promoted quadrant a
RECURSIVE IsNextClimb(_, _, _)
IsNextClimb(D, a, b) ==
  IF a.level > b.level
    THEN IF p4est_quadrant_child_id(D, a) # P4EST_CHILDREN(D) - 1
           THEN [ok |-> FALSE, a |-> a]
           ELSE IsNextClimb(D, p4est_quadrant_parent(D, a), b)
    ELSE [ok |-> TRUE, a |-> a]

p4est_quadrant_is_next_D(D, q, r) ==
  IF p4est_quadrant_compare(D, q, r) >= 0 THEN FALSE
  ELSE LET c == IsNextClimb(D, q, r)
       IN  IF ~c.ok THEN FALSE
           ELSE U64Succ(p4est_quadrant_linear_id(D, c.a, c.a.level))
                  = p4est_quadrant_linear_id(D, r, c.a.level)

(***************************************************************************)
(* Nearest common ancestor.  A call either returns r or stops at a failed  *)
(* P4EST_ASSERT (abort).                                                   *)
(***************************************************************************)
Abort == [abort |-> TRUE, r |-> NoQuad]

Return(r) == [abort |-> FALSE, r |-> r]

\* P4EST_ASSERT (p4est_quadrant_is_extended (r)) before returning r
ReturnExtended(D, r) == IF p4est_quadrant_is_extended(D, r) THEN Return(r) ELSE Abort

Min(a, b) == IF a < b THEN a ELSE b

Max(a, b) == IF a > b THEN a ELSE b

\* mutant: the level of r is not limited by the levels of q1 and q2
NcaResult_NoMinLevel(D, q1, q2, maxlevel) ==
  IF ~(p4est_quadrant_is_extended(D, q1) /\ p4est_quadrant_is_extended(D, q2))
    THEN Abort
  ELSE IF ~(maxlevel <= P4EST_MAXLEVEL(D)) THEN Abort
  ELSE ReturnExtended(D,
         Quad(AndNotLow(q1.x, Pow2(maxlevel)),
              AndNotLow(q1.y, Pow2(maxlevel)),
              IF D = 3 THEN AndNotLow(q1.z, Pow2(maxlevel)) ELSE q1.z,
              P4EST_MAXLEVEL(D) - maxlevel))

\* the assertions on, and the result r for, the computed maxlevel
NcaResult(D, q1, q2, maxlevel) ==
  IF ~(p4est_quadrant_is_extended(D, q1) /\ p4est_quadrant_is_extended(D, q2))
    THEN Abort
  ELSE IF ~(maxlevel <= P4EST_MAXLEVEL(D)) THEN Abort
  ELSE ReturnExtended(D,
         Quad(AndNotLow(q1.x, Pow2(maxlevel)),
              AndNotLow(q1.y, Pow2(maxlevel)),
              IF D = 3 THEN AndNotLow(q1.z, Pow2(maxlevel)) ELSE q1.z,
              Min(P4EST_MAXLEVEL(D) - maxlevel, Min(q1.level, q2.level))))

p4est_nearest_common_ancestor(D, q1, q2) ==
  NcaResult(D, q1, q2,
            SC_LOG2_32(Or32(Or32(Xor32(q1.x, q2.x), Xor32(q1.y, q2.y)),
                            IF D = 3 THEN Xor32(q1.z, q2.z) ELSE 0)) + 1)

\* first stage: promote the deeper quadrant s to the level l
RECURSIVE NcaPromote(_, _, _)
NcaPromote(D, s, l) ==
  IF s.level > l
    THEN IF ~p4est_quadrant_parent_pre(D, s) THEN NoQuad
         ELSE NcaPromote(D, p4est_quadrant_parent(D, s), l)
    ELSE s

\* second stage: go through the parents of both until they are equal
RECURSIVE NcaClimb(_, _, _)
NcaClimb(D, s1, s2) ==
  IF p4est_quadrant_is_equal(D, s1, s2) THEN Return(s1)
  ELSE IF ~(p4est_quadrant_parent_pre(D, s1) /\ p4est_quadrant_parent_pre(D, s2))
    THEN Abort
  ELSE NcaClimb(D, p4est_quadrant_parent(D, s1), p4est_quadrant_parent(D, s2))

\* the final P4EST_ASSERT (p4est_quadrant_is_extended (r)) on a result
NcaChecked(D, c) == IF c.abort THEN Abort ELSE ReturnExtended(D, c.r)

\* the two stages on the promoted copies s1, s2 (NoQuad: a promotion aborted)
NcaStages(D, s1, s2) ==
  IF s1 = NoQuad \/ s2 = NoQuad THEN Abort
  ELSE NcaChecked(D, NcaClimb(D, s1, s2))

p4est_nearest_common_ancestor_D(D, q1, q2) ==
  IF ~(p4est_quadrant_is_extended(D, q1) /\ p4est_quadrant_is_extended(D, q2))
    THEN Abort
  ELSE NcaStages(D, NcaPromote(D, q1, q2.level), NcaPromote(D, q2, q1.level))

(***************************************************************************)
(* Input sets.                                                             *)
(***************************************************************************)
\* all aligned coordinates of the 3x3 domain at level l
ExtCoords(D, l) == {k * P4EST_QUADRANT_LEN(D, l) : k \in (-Pow2(l))..(Pow2(l + 1) - 1)}

ValidCoords(D, l) == {k * P4EST_QUADRANT_LEN(D, l) : k \in 0..(Pow2(l) - 1)}

\* coordinates at the edges of the three root sized cells, for the deep levels
EdgeCoords(D, l) ==
  LET h == P4EST_QUADRANT_LEN(D, l)
      R == P4EST_ROOT_LEN(D)
  IN  {-R, -h, 0, R - h, R, R + (R - h)}

QuadsOver(D, C, l) ==
  {Quad(x, y, z, l) : x \in C, y \in C, z \in IF D = 3 THEN C ELSE {0}}

ExtLow(D, maxl) == UNION {QuadsOver(D, ExtCoords(D, l), l) : l \in 0..maxl}

ExtDeep(D, levels) == UNION {QuadsOver(D, EdgeCoords(D, l), l) : l \in levels}

ValidLow(D, maxl) == UNION {QuadsOver(D, ValidCoords(D, l), l) : l \in 0..maxl}

ValidDeep(D, levels) ==
  UNION {QuadsOver(D, EdgeCoords(D, l) \cap 0..(P4EST_ROOT_LEN(D) - 1), l) : l \in levels}

DeepLevels(D) == {P4EST_QMAXLEVEL(D) - 1, P4EST_QMAXLEVEL(D)}

ExtQuads(D, maxl) == ExtLow(D, maxl) \cup ExtDeep(D, DeepLevels(D))

ValidQuads(D, maxl) == ValidLow(D, maxl) \cup ValidDeep(D, DeepLevels(D))

(***************************************************************************)
(* SpecMorton: one extended quadrant qa of the 2D or 3D build and a level  *)
(* lev <= qa.level; the action encodes qa at lev and decodes the id.       *)
(***************************************************************************)
MortonLevels(q) == {l \in 0..q.level : l <= MaxLevM \/ l >= q.level - 1}

InitMorton ==
  /\ dim \in {2, 3}
  /\ qa \in ExtQuads(dim, MaxLevM)
  /\ lev \in MortonLevels(qa)
  /\ qb = NoQuad /\ qc = NoQuad /\ qd = NoQuad
  /\ arg = 0
  /\ tags = <<0, 0>>
  /\ arr = <<>> /\ stack = <<>> /\ calls = {}
  /\ op = "init"
  /\ out = [kind |-> "none"]

LinearIdSetMorton ==
  /\ op = "init"
  /\ op' = "set_morton"
  /\ LET id == p4est_quadrant_linear_id(dim, qa, lev)
         r == p4est_quadrant_set_morton(dim, lev, id)
     IN  out' = [kind |-> "morton",
                 id |-> id,
                 r |-> r,
                 ok |-> /\ p4est_quadrant_linear_id_pre(dim, qa, lev)
                        /\ p4est_quadrant_set_morton_pre(dim, lev, id)
                        /\ p4est_quadrant_is_extended(dim, r)]
  /\ UNCHANGED <<arr, stack, calls, arg, dim, qa, qb, qc, qd, lev, tags>>

NextMorton == LinearIdSetMorton

SpecMorton == InitMorton /\ [][NextMorton]_vars

\* q with all bits below position MAXLEVEL - l cleared, at level l
Truncated(D, q, l) ==
  LET h == P4EST_QUADRANT_LEN(D, l)
  IN  Quad(q.x - (q.x % h), q.y - (q.y % h), q.z - (q.z % h), l)

\* C1: for a valid quadrant q and a level L <= q.level, decoding the linear
\* id of q at L gives the quadrant of level L whose coordinates are those of
\* q truncated to level L (q itself for L = q.level), with no assertion failing.
C1_RoundTripTruncates ==
  (op = "set_morton" /\ p4est_quadrant_is_valid(dim, qa)) =>
    /\ out.ok
    /\ out.r = Truncated(dim, qa, lev)
    /\ (lev = qa.level => out.r = qa)

C1_Witness ==
  /\ op = "set_morton" /\ p4est_quadrant_is_valid(dim, qa)
  /\ lev < qa.level /\ lev > 0 /\ out.r # qa /\ out.r.x > 0 /\ qa.x # out.r.x

\* C10: for every extended quadrant q, also one with negative coordinates or
\* coordinates >= ROOT_LEN, the id at q.level is below 2^(D*(q.level+2)) and
\* decoding it reproduces q exactly, in the 2D and in the 3D build.
C10_ExtendedRoundTrip ==
  (op = "set_morton" /\ lev = qa.level) =>
    /\ U64Below(out.id, dim * (qa.level + 2))
    /\ out.ok
    /\ out.r = qa

C10_Witness ==
  /\ op = "set_morton" /\ lev = qa.level /\ dim = 3
  /\ qa.x < 0 /\ qa.y >= P4EST_ROOT_LEN(dim) /\ qa.z < 0 /\ out.r = qa /\ qa.level > 0


(***************************************************************************)
(* SpecPairV: two valid quadrants qa, qb of one tree.  The actions apply   *)
(* compare and linear_id at a common level, the two successor tests and    *)
(* the two nearest-common-ancestor algorithms.                             *)
(***************************************************************************)
PairVQuads(D) == ValidQuads(D, IF D = 2 THEN MaxLevV ELSE MaxLevV - 2)

InitPairV ==
  /\ dim \in {2, 3}
  /\ qa \in PairVQuads(dim)
  /\ qb \in PairVQuads(dim)
  /\ qc = NoQuad /\ qd = NoQuad
  /\ lev = 0
  /\ arg = 0
  /\ tags = <<0, 0>>
  /\ arr = <<>> /\ stack = <<>> /\ calls = {}
  /\ op = "init"
  /\ out = [kind |-> "none"]

CompareIds ==
  /\ op = "init"
  /\ \E L \in {Max(qa.level, qb.level),
               Min(Max(qa.level, qb.level) + 1, P4EST_QMAXLEVEL(dim))} :
       /\ lev' = L
       /\ out' = [kind |-> "cmpid",
                  cmp |-> p4est_quadrant_compare(dim, qa, qb),
                  pre |-> /\ p4est_quadrant_linear_id_pre(dim, qa, L)
                          /\ p4est_quadrant_linear_id_pre(dim, qb, L),
                  ida |-> p4est_quadrant_linear_id(dim, qa, L),
                  idb |-> p4est_quadrant_linear_id(dim, qb, L)]
  /\ op' = "compare_ids"
  /\ UNCHANGED <<arr, stack, calls, arg, dim, qa, qb, qc, qd, tags>>

IsNext ==
  /\ op = "init"
  /\ op' = "is_next"
  /\ out' = [kind |-> "next",
             fast |-> p4est_quadrant_is_next(dim, qa, qb),
             slow |-> p4est_quadrant_is_next_D(dim, qa, qb)]
  /\ UNCHANGED <<arr, stack, calls, arg, dim, qa, qb, qc, qd, lev, tags>>

Nca ==
  /\ op = "init"
  /\ op' = "nca"
  /\ out' = [kind |-> "nca",
             fast |-> p4est_nearest_common_ancestor(dim, qa, qb),
             slow |-> p4est_nearest_common_ancestor_D(dim, qa, qb)]
  /\ UNCHANGED <<arr, stack, calls, arg, dim, qa, qb, qc, qd, lev, tags>>

NextPairV == CompareIds \/ IsNext \/ Nca

SpecPairV == InitPairV /\ [][NextPairV]_vars

\* C2 (as stated): for valid same-tree quadrants a, b and any common level
\* L >= max(a.level, b.level), compare(a, b) < 0 implies that linear_id is
\* defined for both at L and linear_id(a, L) < linear_id(b, L).
C2_AsStated ==
  (op = "compare_ids" /\ out.cmp < 0) => (out.pre /\ U64Less(out.ida, out.idb))

\* C2 (amended): for valid same-tree quadrants a, b of one level L,
\* compare(a, b) < 0 exactly when linear_id(a, L) < linear_id(b, L), and
\* compare(a, b) = 0 exactly when the ids are equal.
C2_SameLevelOrder ==
  (op = "compare_ids" /\ qa.level = lev /\ qb.level = lev) =>
    /\ out.pre
    /\ (out.cmp < 0) = U64Less(out.ida, out.idb)
    /\ (out.cmp = 0) = (out.ida = out.idb)

C2_Witness ==
  /\ op = "compare_ids" /\ qa.level = lev /\ qb.level = lev /\ lev >= 2
  /\ out.cmp < 0 /\ qa.x > qb.x /\ U64Less(out.ida, out.idb)

\* C6: for every ordered pair of valid quadrants of one tree, of equal or
\* different levels, is_next and is_next_D return the same boolean.
C6_IsNextAgree == op = "is_next" => out.fast = out.slow

C6_Witness ==
  /\ op = "is_next" /\ out.fast /\ out.slow /\ qa.level > qb.level + 1

\* C7: for every pair of valid quadrants of one tree both nearest common
\* ancestor algorithms return, and return the same quadrant, also for
\* q1 = q2 and when one is an ancestor of the other.
C7_NcaAgree ==
  op = "nca" => (~out.fast.abort /\ ~out.slow.abort /\ out.fast.r = out.slow.r)

C7_Witness ==
  /\ op = "nca" /\ ~out.fast.abort /\ out.fast.r = out.slow.r
  /\ out.fast.r.level > 0 /\ out.fast.r.level < Min(qa.level, qb.level)


(***************************************************************************)
(* SpecPairE: two extended quadrants qa, qb (3x3 domain, negative          *)
(* coordinates included).  The owner-tree tags p.which_tree of the two     *)
(* quadrants are inputs of the nearest-common-ancestor call.               *)
(***************************************************************************)
PairEQuads(D) ==
  IF D = 2 THEN ExtLow(2, MaxLevE) \cup ExtDeep(2, {P4EST_QMAXLEVEL(2)})
  ELSE ExtLow(3, MaxLevE - 1)

TreeTags == {<<0, 0>>, <<0, 1>>}

InitPairE ==
  /\ dim \in {2, 3}
  /\ qa \in PairEQuads(dim)
  /\ qb \in PairEQuads(dim)
  /\ qc = NoQuad /\ qd = NoQuad
  /\ lev = 0
  /\ arg = 0
  /\ tags = <<0, 0>>
  /\ arr = <<>> /\ stack = <<>> /\ calls = {}
  /\ op = "init"
  /\ out = [kind |-> "none"]

IsAncestor ==
  /\ op = "init"
  /\ op' = "is_ancestor"
  /\ out' = [kind |-> "anc", anc |-> p4est_quadrant_is_ancestor(dim, qa, qb)]
  /\ UNCHANGED <<arr, stack, calls, arg, dim, qa, qb, qc, qd, lev, tags>>

NcaTagged ==
  /\ op = "init"
  /\ op' = "nca_tagged"
  /\ \E t \in TreeTags : tags' = t
  /\ out' = [kind |-> "nca",
             fast |-> p4est_nearest_common_ancestor(dim, qa, qb),
             slow |-> p4est_nearest_common_ancestor_D(dim, qa, qb)]
  /\ UNCHANGED <<arr, stack, calls, arg, dim, qa, qb, qc, qd, lev>>

NextPairE == IsAncestor \/ NcaTagged

SpecPairE == InitPairE /\ [][NextPairE]_vars

\* the root sized cell of the 3x3 domain that holds q
RootCell(D, q) ==
  <<q.x \div P4EST_ROOT_LEN(D), q.y \div P4EST_ROOT_LEN(D), q.z \div P4EST_ROOT_LEN(D)>>

AgreeFrom(D, q, r, lo) ==
  \A i \in lo..31 :
    /\ Bit(q.x, i) = Bit(r.x, i)
    /\ Bit(q.y, i) = Bit(r.y, i)
    /\ (D = 3 => Bit(q.z, i) = Bit(r.z, i))

\* C9 (as stated): is_ancestor(q, r) holds exactly when q.level < r.level
\* and r agrees with q on all bits above position MAXLEVEL - q.level.
C9_AsStated ==
  op = "is_ancestor" =>
    (out.anc = (/\ qa.level < qb.level
                /\ AgreeFrom(dim, qa, qb, P4EST_MAXLEVEL(dim) - qa.level + 1)))

\* C9 (amended): is_ancestor(q, r) holds exactly when q.level < r.level and
\* r agrees with q on all bits at or above position MAXLEVEL - q.level.
C9_AncestorBits ==
  op = "is_ancestor" =>
    (out.anc = (/\ qa.level < qb.level
                /\ AgreeFrom(dim, qa, qb, P4EST_MAXLEVEL(dim) - qa.level)))

C9_Witness ==
  /\ op = "is_ancestor" /\ out.anc /\ qa.x < 0 /\ qa.level > 0 /\ qb.x # qa.x

(***************************************************************************)
(* SpecOrder: compare on two extended quadrants qa, qb, in both argument   *)
(* orders, and against every quadrant c of a probe set.                    *)
(***************************************************************************)
OrderQuads(D) == ExtLow(D, MaxLevE - D + 2)

ProbeQuads(D) ==
  IF D = 2 THEN ExtLow(2, MaxLevE - 1) ELSE ExtLow(3, 0)

InitOrder ==
  /\ dim \in {2, 3}
  /\ qa \in OrderQuads(dim)
  /\ qb \in OrderQuads(dim)
  /\ qc = NoQuad /\ qd = NoQuad
  /\ lev = 0
  /\ arg = 0
  /\ tags = <<0, 0>>
  /\ arr = <<>> /\ stack = <<>> /\ calls = {}
  /\ op = "init"
  /\ out = [kind |-> "none"]

CompareOrder ==
  /\ op = "init"
  /\ op' = "compare"
  /\ LET ab == p4est_quadrant_compare(dim, qa, qb)
         after == IF ab < 0
                    THEN {c \in ProbeQuads(dim) : p4est_quadrant_compare(dim, qb, c) < 0}
                    ELSE {}
     IN  out' = [kind |-> "order",
                 ab |-> ab,
                 ba |-> p4est_quadrant_compare(dim, qb, qa),
                 eq |-> p4est_quadrant_is_equal(dim, qa, qb),
                 after |-> after,
                 bad |-> {c \in after : ~(p4est_quadrant_compare(dim, qa, c) < 0)}]
  /\ UNCHANGED <<arr, stack, calls, arg, dim, qa, qb, qc, qd, lev, tags>>

NextOrder == CompareOrder

SpecOrder == InitOrder /\ [][NextOrder]_vars

Sign(n) == IF n < 0 THEN -1 ELSE IF n > 0 THEN 1 ELSE 0

\* C3: compare is a total order on extended quadrants, negative coordinates
\* included: the sign of compare(a, b) is opposite to that of compare(b, a);
\* compare(a, b) = 0 exactly when a and b have equal coordinates and level;
\* compare(a, b) < 0 and compare(b, c) < 0 imply compare(a, c) < 0.
C3_TotalOrder ==
  op = "compare" =>
    /\ Sign(out.ab) = -Sign(out.ba)
    /\ (out.ab = 0) = (qa = qb)
    /\ (out.ab = 0) = out.eq
    /\ out.bad = {}

C3_Witness ==
  /\ op = "compare" /\ out.ab < 0 /\ qa.x >= 0 /\ qb.x < 0 /\ qa.level # qb.level
  /\ \E c \in out.after : c.y < 0 /\ c.x = qb.x /\ c.x # qa.x

(***************************************************************************)
(* SpecFamily (2D): parent / children round trips on one quadrant qa and   *)
(* the family test on four quadrants drawn next to qa.                     *)
(***************************************************************************)
\* the quadrants at offsets 0 or one side length from q, of q's level, and
\* q itself one level deeper
FamilyCandidates(q) ==
  LET inc == P4EST_QUADRANT_LEN(2, q.level)
      near == {Quad(Add32(q.x, dx * inc), Add32(q.y, dy * inc), 0, q.level) :
                 dx \in {0, 1}, dy \in {0, 1}}
      deeper == IF q.level < P4EST_QMAXLEVEL(2)
                  THEN {Quad(q.x, q.y, 0, q.level + 1)} ELSE {}
  IN  {c \in near \cup deeper : p4est_quadrant_is_extended(2, c)}

InitFamily ==
  /\ dim = 2
  /\ qa \in ExtQuads(2, MaxLevE)
  /\ qb = NoQuad /\ qc = NoQuad /\ qd = NoQuad
  /\ lev = 0
  /\ arg = 0
  /\ tags = <<0, 0>>
  /\ arr = <<>> /\ stack = <<>> /\ calls = {}
  /\ op = "init"
  /\ out = [kind |-> "none"]

\* children (parent (qa))
ChildrenOfParent ==
  /\ op = "init"
  /\ p4est_quadrant_parent_pre(2, qa)
  /\ op' = "children_of_parent"
  /\ LET p == p4est_quadrant_parent(2, qa)
     IN  out' = [kind |-> "children",
                 ok |-> p4est_quadrant_is_extended(2, p) /\ p4est_quadrant_children_pre(p),
                 c |-> p4est_quadrant_children(p),
                 id |-> p4est_quadrant_child_id(2, qa)]
  /\ UNCHANGED <<arr, stack, calls, arg, dim, qa, qb, qc, qd, lev, tags>>

\* parent of each of children (qa)
ParentOfChildren ==
  /\ op = "init"
  /\ p4est_quadrant_children_pre(qa)
  /\ op' = "parent_of_children"
  /\ LET c == p4est_quadrant_children(qa)
     IN  out' = [kind |-> "parents",
                 ok |-> \A i \in 1..4 : p4est_quadrant_parent_pre(2, c[i]),
                 fam |-> p4est_quadrant_is_family(c[1], c[2], c[3], c[4]),
                 p |-> [i \in 1..4 |-> p4est_quadrant_parent(2, c[i])]]
  /\ UNCHANGED <<arr, stack, calls, arg, dim, qa, qb, qc, qd, lev, tags>>

\* is_family (qa, qb, qc, qd)
IsFamily ==
  /\ op = "init"
  /\ op' = "is_family"
  /\ \E q1 \in FamilyCandidates(qa), q2 \in FamilyCandidates(qa),
        q3 \in FamilyCandidates(qa) :
       /\ qb' = q1 /\ qc' = q2 /\ qd' = q3
       /\ out' = [kind |-> "family", fam |-> p4est_quadrant_is_family(qa, q1, q2, q3)]
  /\ UNCHANGED <<arr, stack, calls, arg, dim, qa, lev, tags>>

NextFamily == ChildrenOfParent \/ ParentOfChildren \/ IsFamily

SpecFamily == InitFamily /\ [][NextFamily]_vars

\* C4: for a valid 2D quadrant q of level > 0 exactly one of the four
\* children of parent(q) equals q, the one at index child_id(q); for a valid
\* q of level < QMAXLEVEL the parent of each of its four children is q.
C4_ParentChildInverse ==
  /\ (op = "children_of_parent" /\ p4est_quadrant_is_valid(2, qa)) =>
       /\ out.ok
       /\ {i \in 1..4 : out.c[i] = qa} = {out.id + 1}
  /\ (op = "parent_of_children" /\ p4est_quadrant_is_valid(2, qa)) =>
       /\ out.ok
       /\ \A i \in 1..4 : out.p[i] = qa

C4_Witness ==
  /\ op = "children_of_parent" /\ p4est_quadrant_is_valid(2, qa)
  /\ qa.level >= 1 /\ qa.level <= MaxLevE /\ out.id = 2 /\ out.c[3] = qa

\* the quadrant whose first child is q0, when there is one
IsChildrenOfSome(q0, q1, q2, q3) ==
  /\ q0.level > 0
  /\ LET X == Quad(q0.x, q0.y, q0.z, q0.level - 1)
     IN  /\ p4est_quadrant_is_extended(2, X)
         /\ p4est_quadrant_children(X) = <<q0, q1, q2, q3>>

\* C5: is_family(q0, q1, q2, q3) is true exactly when the four quadrants are
\* the children, in child-index order, of one quadrant X.
C5_FamilyIffChildren ==
  op = "is_family" => (out.fam = IsChildrenOfSome(qa, qb, qc, qd))

(***************************************************************************)
(* Corners: sibling, touches_corner, shift_corner.                         *)
(***************************************************************************)
P4EST_LAST_OFFSET(D, l) == P4EST_ROOT_LEN(D) - P4EST_QUADRANT_LEN(D, l)

\* a node: level MAXLEVEL, on the closed root (inside: clamped into it)
p4est_quadrant_is_node(D, q, inside) ==
  LET top == P4EST_ROOT_LEN(D) - (IF inside THEN 1 ELSE 0)
      m == Pow2(P4EST_MAXLEVEL(D) - P4EST_QMAXLEVEL(D))
      Ok(v) == /\ v >= 0 /\ v <= top
               /\ (AndLow(v, m) = 0 \/ (inside /\ v = P4EST_ROOT_LEN(D) - 1))
  IN  /\ q.level = P4EST_MAXLEVEL(D)
      /\ Ok(q.x) /\ Ok(q.y)
      /\ (D = 3 => Ok(q.z))

p4est_quadrant_sibling_pre(D, q, sibling_id) ==
  /\ p4est_quadrant_is_extended(D, q)
  /\ q.level > 0
  /\ sibling_id >= 0 /\ sibling_id < P4EST_CHILDREN(D)

p4est_quadrant_sibling(D, q, sibling_id) ==
  LET addx == sibling_id % 2
      addy == (sibling_id \div 2) % 2
      addz == (sibling_id \div 4) % 2
      shift == P4EST_QUADRANT_LEN(D, q.level)
      Put(add, v) == IF add = 1 THEN OrBit(v, shift) ELSE AndNotBit(v, shift)
  IN  Quad(Put(addx, q.x), Put(addy, q.y),
           IF D = 3 THEN Put(addz, q.z) ELSE q.z, q.level)

\* the result is [abort, r] with a boolean r
p4est_quadrant_touches_corner(D, q, corner, inside) ==
  LET node == q.level = P4EST_MAXLEVEL(D)
      pre == IF node THEN p4est_quadrant_is_node(D, q, inside)
             ELSE IF ~inside THEN p4est_quadrant_is_extended(D, q)
             ELSE p4est_quadrant_is_valid(D, q)
      lower == IF ~node /\ ~inside THEN -P4EST_QUADRANT_LEN(D, q.level) ELSE 0
      upper == IF node THEN P4EST_ROOT_LEN(D) - (IF inside THEN 1 ELSE 0)
               ELSE IF ~inside THEN P4EST_ROOT_LEN(D)
               ELSE P4EST_LAST_OFFSET(D, q.level)
      Contact(v, side) == IF v = (IF side = 0 THEN lower ELSE upper) THEN 1 ELSE 0
      incount == Contact(q.x, corner % 2) + Contact(q.y, (corner \div 2) % 2)
                 + (IF D = 3 THEN Contact(q.z, corner \div 4) ELSE 0)
  IN  IF ~(0 <= corner /\ corner < P4EST_CHILDREN(D)) THEN Abort
      ELSE IF ~pre THEN Abort
      ELSE Return(incount = D)

\* the table contact[] of p4est_quadrant_shift_corner
ShiftContact(D) ==
  IF D = 2 THEN <<5, 6, 9, 10>> ELSE <<21, 22, 25, 26, 37, 38, 41, 42>>

\* step[axis] for a corner
ShiftStep(corner, axis) == 2 * ((corner \div Pow2(axis)) % 2) - 1

ShiftOutface(D, r, th) ==
    (IF r.x <= 0 THEN 1 ELSE 0) + (IF r.x >= th THEN 2 ELSE 0)
  + (IF r.y <= 0 THEN 4 ELSE 0) + (IF r.y >= th THEN 8 ELSE 0)
  + (IF D = 3 THEN (IF r.z <= 0 THEN 16 ELSE 0) + (IF r.z >= th THEN 32 ELSE 0)
     ELSE 0)

\* quad after p4est_quadrant_parent (&quad, &quad) and the three quad.x += ...
ShiftUp(D, quad, corner) ==
  LET p == p4est_quadrant_parent(D, quad)
      h == P4EST_QUADRANT_LEN(D, p.level)
  IN  Quad(Add32(p.x, ShiftStep(corner, 0) * h),
           Add32(p.y, ShiftStep(corner, 1) * h),
           IF D = 3 THEN Add32(p.z, ShiftStep(corner, 2) * h) ELSE p.z,
           p.level)

\* the for (;;) loop: [abort, r, th] at the break
RECURSIVE ShiftLoop(_, _, _)
ShiftLoop(D, quad, corner) ==
  IF ~p4est_quadrant_sibling_pre(D, quad, corner)
    THEN [abort |-> TRUE, r |-> NoQuad, th |-> 0]
  ELSE IF ShiftOutface(D, p4est_quadrant_sibling(D, quad, corner),
                       P4EST_LAST_OFFSET(D, quad.level))
          = ShiftContact(D)[corner + 1]
    THEN [abort |-> FALSE, r |-> p4est_quadrant_sibling(D, quad, corner),
          th |-> P4EST_LAST_OFFSET(D, quad.level)]
  ELSE IF ~p4est_quadrant_parent_pre(D, quad)
    THEN [abort |-> TRUE, r |-> NoQuad, th |-> 0]
  ELSE IF ~p4est_quadrant_is_extended(D, ShiftUp(D, quad, corner))
    THEN [abort |-> TRUE, r |-> NoQuad, th |-> 0]
  ELSE ShiftLoop(D, ShiftUp(D, quad, corner), corner)

\* if (r->x < 0) r->x = 0; if (r->x >= P4EST_ROOT_LEN) r->x = th;
ShiftClamp(D, v, th) ==
  IF v < 0 THEN 0 ELSE IF v >= P4EST_ROOT_LEN(D) THEN th ELSE v

\* the clamped r and the final P4EST_ASSERT (touches_corner (r, corner, true))
ShiftFinish(D, l, corner) ==
  LET r == Quad(ShiftClamp(D, l.r.x, l.th), ShiftClamp(D, l.r.y, l.th),
                IF D = 3 THEN ShiftClamp(D, l.r.z, l.th) ELSE l.r.z, l.r.level)
      t == p4est_quadrant_touches_corner(D, r, corner, TRUE)
  IN  IF t.abort THEN Abort ELSE IF ~t.r THEN Abort ELSE Return(r)

p4est_quadrant_shift_corner(D, q, corner) ==
  IF ~(p4est_quadrant_is_valid(D, q) /\ corner >= 0 /\ corner < P4EST_CHILDREN(D))
    THEN Abort
  ELSE LET l == ShiftLoop(D, q, corner)
       IN  IF l.abort THEN Abort ELSE ShiftFinish(D, l, corner)

(***************************************************************************)
(* SpecCorner: one valid quadrant qa and a corner arg; the action shifts   *)
(* qa to the corner.                                                       *)
(***************************************************************************)
\* coordinates next to the edges and the middle of the root, for deep levels
CornerCoords(D, l) ==
  LET h == P4EST_QUADRANT_LEN(D, l)
      R == P4EST_ROOT_LEN(D)
  IN  {0, h, (R \div 2) - h, R \div 2, R - 2 * h, R - h}

CornerQuads(D) ==
  ValidLow(D, MaxLevV + 2 - D)
    \cup UNION {QuadsOver(D, CornerCoords(D, l), l) : l \in DeepLevels(D)}

InitCorner ==
  /\ dim \in {2, 3}
  /\ qa \in CornerQuads(dim)
  /\ arg \in 0..(P4EST_CHILDREN(dim) - 1)
  /\ qb = NoQuad /\ qc = NoQuad /\ qd = NoQuad
  /\ lev = 0
  /\ tags = <<0, 0>>
  /\ arr = <<>> /\ stack = <<>> /\ calls = {}
  /\ op = "init"
  /\ out = [kind |-> "none"]

ShiftCorner ==
  /\ op = "init"
  /\ op' = "shift_corner"
  /\ out' = [kind |-> "shift", res |-> p4est_quadrant_shift_corner(dim, qa, arg)]
  /\ UNCHANGED <<arr, stack, calls, arg, dim, qa, qb, qc, qd, lev, tags>>

NextCorner == ShiftCorner

SpecCorner == InitCorner /\ [][NextCorner]_vars

\* C11: for every valid quadrant q of any level 0..QMAXLEVEL and every corner
\* c, shift_corner (q, r, c) ends without a failed assertion and r is a valid
\* quadrant that touches corner c of the root from inside.
C11_ShiftCornerTouches ==
  op = "shift_corner" =>
    /\ ~out.res.abort
    /\ p4est_quadrant_is_valid(dim, out.res.r)
    /\ p4est_quadrant_touches_corner(dim, out.res.r, arg, TRUE) = Return(TRUE)

(***************************************************************************)
(* Face neighbours (2D numbering of the faces: 0 -y, 1 +x, 2 +y, 3 -x;     *)
(* 3D: 0 -x, 1 +x, 2 -y, 3 +y, 4 -z, 5 +z).  An array n[0..3] of the code  *)
(* is the sequence <<n[0], n[1], n[2], n[3]>>, so n[3] is element 4.       *)
(***************************************************************************)
\* corner numbering of the 2D connectivity <-> z-order
p4est_corner_to_zorder == <<0, 1, 3, 2, 4>>

p4est_quadrant_face_neighbor_pre(D, q, face) ==
  /\ 0 <= face /\ face < 2 * D
  /\ p4est_quadrant_is_valid(D, q)

p4est_quadrant_face_neighbor(D, q, face) ==
  LET qh == P4EST_QUADRANT_LEN(D, q.level)
  IN  IF D = 2
        THEN Quad(Add32(q.x, IF face = 1 THEN qh ELSE IF face = 3 THEN -qh ELSE 0),
                  Add32(q.y, IF face = 0 THEN -qh ELSE IF face = 2 THEN qh ELSE 0),
                  q.z, q.level)
        ELSE Quad(Add32(q.x, IF face = 0 THEN -qh ELSE IF face = 1 THEN qh ELSE 0),
                  Add32(q.y, IF face = 2 THEN -qh ELSE IF face = 3 THEN qh ELSE 0),
                  Add32(q.z, IF face = 4 THEN -qh ELSE IF face = 5 THEN qh ELSE 0),
                  q.level)

p4est_quadrant_half_face_neighbors_pre(q) ==
  /\ p4est_quadrant_is_valid(2, q)
  /\ q.level < P4EST_QMAXLEVEL(2)

\* mutant: across face 0 the far row of the neighbour's children is taken
half_face_neighbors_FarRow(q, face) ==
  LET qh == P4EST_QUADRANT_LEN(2, q.level)
      qh_2 == P4EST_QUADRANT_LEN(2, q.level + 1)
      l == q.level + 1
  IN  CASE face = 0 -> <<Quad(q.x, Add32(q.y, -qh), q.z, l),
                         Quad(Add32(q.x, qh_2), Add32(q.y, -qh), q.z, l)>>
        [] face = 1 -> <<Quad(Add32(q.x, qh), q.y, q.z, l),
                         Quad(Add32(q.x, qh), Add32(q.y, qh_2), q.z, l)>>
        [] face = 2 -> <<Quad(q.x, Add32(q.y, qh), q.z, l),
                         Quad(Add32(q.x, qh_2), Add32(q.y, qh), q.z, l)>>
        [] face = 3 -> <<Quad(Add32(q.x, -qh_2), q.y, q.z, l),
                         Quad(Add32(q.x, -qh_2), Add32(q.y, qh_2), q.z, l)>>

\* <<n[0], n[1]>> (nur = NULL)
p4est_quadrant_half_face_neighbors(q, face) ==
  LET qh == P4EST_QUADRANT_LEN(2, q.level)
      qh_2 == P4EST_QUADRANT_LEN(2, q.level + 1)
      l == q.level + 1
  IN  CASE face = 0 -> <<Quad(q.x, Add32(q.y, -qh_2), q.z, l),
                         Quad(Add32(q.x, qh_2), Add32(q.y, -qh_2), q.z, l)>>
        [] face = 1 -> <<Quad(Add32(q.x, qh), q.y, q.z, l),
                         Quad(Add32(q.x, qh), Add32(q.y, qh_2), q.z, l)>>
        [] face = 2 -> <<Quad(q.x, Add32(q.y, qh), q.z, l),
                         Quad(Add32(q.x, qh_2), Add32(q.y, qh), q.z, l)>>
        [] face = 3 -> <<Quad(Add32(q.x, -qh_2), q.y, q.z, l),
                         Quad(Add32(q.x, -qh_2), Add32(q.y, qh_2), q.z, l)>>

\* the larger neighbour n[3] for rqcid, or the initialised quadrant
AllFaceLarger(q, face, rqcid) ==
  IF (face # rqcid /\ face # (rqcid + 3) % 4) \/ q.level = 0
    THEN NoQuad
    ELSE p4est_quadrant_face_neighbor(2, p4est_quadrant_parent(2, q), face)

\* mutant: the second face of the corner is taken to be rqcid + 1
all_face_neighbors_NextFace(q, face) ==
  IF ~(p4est_quadrant_is_valid(2, q) /\ 0 <= face /\ face < 4)
    THEN [abort |-> TRUE, n |-> <<NoQuad, NoQuad, NoQuad, NoQuad>>]
  ELSE LET rqcid == p4est_corner_to_zorder[p4est_quadrant_child_id(2, q) + 1]
           h == IF q.level = P4EST_QMAXLEVEL(2) THEN <<NoQuad, NoQuad>>
                ELSE p4est_quadrant_half_face_neighbors(q, face)
       IN  [abort |-> FALSE,
            n |-> <<h[1], h[2], p4est_quadrant_face_neighbor(2, q, face),
                    IF (face # rqcid /\ face # (rqcid + 1) % 4) \/ q.level = 0
                      THEN NoQuad
                      ELSE p4est_quadrant_face_neighbor(
                             2, p4est_quadrant_parent(2, q), face)>>]

\* [abort, n]; every quadrant it makes is extended, as the callees assert
p4est_quadrant_all_face_neighbors(q, face) ==
  IF ~(p4est_quadrant_is_valid(2, q) /\ 0 <= face /\ face < 4)
    THEN [abort |-> TRUE, n |-> <<NoQuad, NoQuad, NoQuad, NoQuad>>]
  ELSE LET rqcid == p4est_corner_to_zorder[p4est_quadrant_child_id(2, q) + 1]
           h == IF q.level = P4EST_QMAXLEVEL(2) THEN <<NoQuad, NoQuad>>
                ELSE p4est_quadrant_half_face_neighbors(q, face)
       IN  [abort |-> FALSE,
            n |-> <<h[1], h[2], p4est_quadrant_face_neighbor(2, q, face),
                    AllFaceLarger(q, face, rqcid)>>]

(***************************************************************************)
(* SpecFace: one valid 2D quadrant qa and a face arg.                      *)
(***************************************************************************)
InitFace ==
  /\ dim = 2
  /\ qa \in ValidQuads(2, MaxLevV)
  /\ arg \in 0..3
  /\ qb = NoQuad /\ qc = NoQuad /\ qd = NoQuad
  /\ lev = 0
  /\ tags = <<0, 0>>
  /\ arr = <<>> /\ stack = <<>> /\ calls = {}
  /\ op = "init"
  /\ out = [kind |-> "none"]

AllFaceNeighbors ==
  /\ op = "init"
  /\ op' = "all_face_neighbors"
  /\ out' = [kind |-> "faces", res |-> p4est_quadrant_all_face_neighbors(qa, arg)]
  /\ UNCHANGED <<arr, stack, calls, arg, dim, qa, qb, qc, qd, lev, tags>>

NextFace == AllFaceNeighbors

SpecFace == InitFace /\ [][NextFace]_vars

\* face f of q lies on the boundary of the parent of q (q.level > 0)
OnParentFace(q, f) ==
  LET h == P4EST_QUADRANT_LEN(2, q.level)
      p == p4est_quadrant_parent(2, q)
  IN  CASE f = 0 -> q.y = p.y
        [] f = 1 -> q.x + h = p.x + 2 * h
        [] f = 2 -> q.y + h = p.y + 2 * h
        [] f = 3 -> q.x = p.x

\* C12: for a valid 2D quadrant q and a face f, all_face_neighbors reports a
\* larger neighbour in n[3] iff q.level > 0 and face f of q lies on the
\* boundary of q's parent; then n[3] = face_neighbor (parent (q), f), and
\* otherwise n[3] is the initialised, not valid quadrant.
C12_LargerNeighbor ==
  op = "all_face_neighbors" =>
    /\ ~out.res.abort
    /\ IF qa.level > 0 /\ OnParentFace(qa, arg)
         THEN /\ out.res.n[4] =
                   p4est_quadrant_face_neighbor(2, p4est_quadrant_parent(2, qa), arg)
              /\ p4est_quadrant_is_extended(2, out.res.n[4])
         ELSE /\ out.res.n[4] = NoQuad
              /\ ~p4est_quadrant_is_valid(2, out.res.n[4])

C12_Witness ==
  /\ op = "all_face_neighbors"
  /\ qa.level > 1
  /\ out.res.n[4] # NoQuad
  /\ ~p4est_quadrant_is_inside_root(2, out.res.n[4])

(***************************************************************************)
(* The 8 transforms of a 2D quadrant or node across a tree face.           *)
(***************************************************************************)
\* th: ROOT_LEN for a node, the last offset of its level for a quadrant
TransformTh(q) ==
  IF p4est_quadrant_is_node(2, q, FALSE) THEN P4EST_ROOT_LEN(2)
  ELSE P4EST_LAST_OFFSET(2, q.level)

\* the switch (transform_type)
TransformXY(q, th, transform_type) ==
  CASE transform_type = 0 -> <<q.x, q.y>>
    [] transform_type = 1 -> <<th - q.y, q.x>>
    [] transform_type = 2 -> <<th - q.x, th - q.y>>
    [] transform_type = 3 -> <<q.y, th - q.x>>
    [] transform_type = 4 -> <<q.x, th - q.y>>
    [] transform_type = 5 -> <<q.y, q.x>>
    [] transform_type = 6 -> <<th - q.x, q.y>>
    [] transform_type = 7 -> <<th - q.y, th - q.x>>

\* mutant: type 3 rotates about the wrong axis (y is mirrored, not x)
transform_face_Rot90Y(q, transform_type) ==
  IF ~(0 <= transform_type /\ transform_type < 8) THEN Abort
  ELSE IF ~(p4est_quadrant_is_node(2, q, FALSE) \/ p4est_quadrant_is_extended(2, q))
    THEN Abort
  ELSE LET th == TransformTh(q)
           xy == IF transform_type = 3 THEN <<q.y, th - q.y>>
                 ELSE TransformXY(q, th, transform_type)
           r == Quad(xy[1], xy[2], q.z, q.level)
       IN  IF p4est_quadrant_is_node(2, r, FALSE) \/ p4est_quadrant_is_extended(2, r)
             THEN Return(r) ELSE Abort

p4est_quadrant_transform_face(q, transform_type) ==
  IF ~(0 <= transform_type /\ transform_type < 8) THEN Abort
  ELSE IF ~(p4est_quadrant_is_node(2, q, FALSE) \/ p4est_quadrant_is_extended(2, q))
    THEN Abort
  ELSE LET xy == TransformXY(q, TransformTh(q), transform_type)
           r == Quad(xy[1], xy[2], q.z, q.level)
       IN  IF p4est_quadrant_is_node(2, r, FALSE) \/ p4est_quadrant_is_extended(2, r)
             THEN Return(r) ELSE Abort

(***************************************************************************)
(* SpecTransform: a valid 2D quadrant qa and a transform type arg; the     *)
(* action applies type arg and then a second type, kept in lev.            *)
(***************************************************************************)
InitTransform ==
  /\ dim = 2
  /\ qa \in ValidQuads(2, MaxLevV)
  /\ arg \in 0..7
  /\ qb = NoQuad /\ qc = NoQuad /\ qd = NoQuad
  /\ lev = 0
  /\ tags = <<0, 0>>
  /\ arr = <<>> /\ stack = <<>> /\ calls = {}
  /\ op = "init"
  /\ out = [kind |-> "none"]

TransformFaceTwice ==
  /\ op = "init"
  /\ op' = "transform_face"
  /\ \E t2 \in 0..7 :
       /\ lev' = t2
       /\ LET first == p4est_quadrant_transform_face(qa, arg)
          IN  out' = [kind |-> "transform",
                      first |-> first,
                      second |-> IF first.abort THEN Abort
                                 ELSE p4est_quadrant_transform_face(first.r, t2)]
  /\ UNCHANGED <<arr, stack, calls, arg, dim, qa, qb, qc, qd, tags>>

NextTransform == TransformFaceTwice

SpecTransform == InitTransform /\ [][NextTransform]_vars

\* the inverse of a type as a rigid transform
InverseType(t) == IF t = 1 THEN 3 ELSE IF t = 3 THEN 1 ELSE t

\* the valid 2D quadrants of level l
ValidOfLevel(l) == QuadsOver(2, ValidCoords(2, l), l)

\* C13: each of the 8 types maps the valid 2D quadrants of a level onto the
\* valid quadrants of the same level, one to one; types 0, 2, 4, 5, 6, 7
\* applied twice, and 1 then 3 and 3 then 1, give back the quadrant.
C13_TransformBijective ==
  op = "transform_face" =>
    /\ ~out.first.abort
    /\ p4est_quadrant_is_valid(2, out.first.r)
    /\ out.first.r.level = qa.level
    /\ (lev = InverseType(arg) => ~out.second.abort /\ out.second.r = qa)
    /\ (qa.level <= MaxLevV /\ lev = InverseType(arg) =>
          {p4est_quadrant_transform_face(q, arg).r : q \in ValidOfLevel(qa.level)}
            = ValidOfLevel(qa.level))

C13_Witness ==
  /\ op = "transform_face"
  /\ arg = 1 /\ lev = 3
  /\ qa.level > 1
  /\ out.first.r # qa
  /\ out.second.r = qa

(***************************************************************************)
(* The transform of a node index (2D, z-order numbering of the corners).   *)
(***************************************************************************)
\* mutant: the two rotations are exchanged
node_transform_RotSwapped(node, transform_type) ==
  IF ~(0 <= node /\ node < 4) THEN -1
  ELSE CASE transform_type = 0 -> node
         [] transform_type = 1 ->
              p4est_corner_to_zorder[((p4est_corner_to_zorder[node + 1] + 3) % 4) + 1]
         [] transform_type = 2 -> 3 - node
         [] transform_type = 3 ->
              p4est_corner_to_zorder[((p4est_corner_to_zorder[node + 1] + 1) % 4) + 1]
         [] transform_type = 4 -> <<2, 3, 0, 1>>[node + 1]
         [] transform_type = 5 -> <<0, 2, 1, 3>>[node + 1]
         [] transform_type = 6 -> <<1, 0, 3, 2>>[node + 1]
         [] transform_type = 7 -> <<3, 1, 2, 0>>[node + 1]
         [] OTHER -> -1

\* trans_node, or -1 where an assertion or SC_ABORT_NOT_REACHED stops the call
p4est_node_transform(node, transform_type) ==
  IF ~(0 <= node /\ node < 4) THEN -1
  ELSE CASE transform_type = 0 -> node
         [] transform_type = 1 ->
              p4est_corner_to_zorder[((p4est_corner_to_zorder[node + 1] + 1) % 4) + 1]
         [] transform_type = 2 -> 3 - node
         [] transform_type = 3 ->
              p4est_corner_to_zorder[((p4est_corner_to_zorder[node + 1] + 3) % 4) + 1]
         [] transform_type = 4 -> <<2, 3, 0, 1>>[node + 1]
         [] transform_type = 5 -> <<0, 2, 1, 3>>[node + 1]
         [] transform_type = 6 -> <<1, 0, 3, 2>>[node + 1]
         [] transform_type = 7 -> <<3, 1, 2, 0>>[node + 1]
         [] OTHER -> -1

(***************************************************************************)
(* SpecNode: a corner node lev of the root (qa is the node as a quadrant   *)
(* of level MAXLEVEL) and a type arg; the action transforms the index and  *)
(* the node by arg and then by a second type t2.                           *)
(***************************************************************************)
\* the node at root corner k in z-order
RootCorner(k) ==
  Quad((k % 2) * P4EST_ROOT_LEN(2), (k \div 2) * P4EST_ROOT_LEN(2), 0,
       P4EST_MAXLEVEL(2))

InitNode ==
  /\ dim = 2
  /\ lev \in 0..3
  /\ qa = RootCorner(lev)
  /\ arg \in 0..7
  /\ qb = NoQuad /\ qc = NoQuad /\ qd = NoQuad
  /\ tags = <<0, 0>>
  /\ arr = <<>> /\ stack = <<>> /\ calls = {}
  /\ op = "init"
  /\ out = [kind |-> "none"]

NodeTransformTwice ==
  /\ op = "init"
  /\ op' = "node_transform"
  /\ \E t2 \in 0..7 :
       LET n1 == p4est_node_transform(lev, arg)
           q1 == p4est_quadrant_transform_face(qa, arg)
       IN  out' = [kind |-> "node", t2 |-> t2,
                   n1 |-> n1,
                   n2 |-> p4est_node_transform(n1, t2),
                   q1 |-> q1,
                   q2 |-> IF q1.abort THEN Abort
                          ELSE p4est_quadrant_transform_face(q1.r, t2)]
  /\ UNCHANGED <<arr, stack, calls, arg, dim, qa, qb, qc, qd, lev, tags>>

NextNode == NodeTransformTwice

SpecNode == InitNode /\ [][NextNode]_vars

\* the z-order index of a root corner node, -1 for any other quadrant
CornerIndex(q) ==
  IF \E k \in 0..3 : q = RootCorner(k)
    THEN CHOOSE k \in 0..3 : q = RootCorner(k)
    ELSE -1

\* C14: node_transform (k, t) is the z-order index of the root corner onto
\* which transform_face with type t maps the root corner node k; hence
\* node_transform (., t) is a permutation of {0, 1, 2, 3}.
C14_NodeTransformMatches ==
  op = "node_transform" =>
    /\ ~out.q1.abort /\ ~out.q2.abort
    /\ out.n1 = CornerIndex(out.q1.r)
    /\ out.n2 = CornerIndex(out.q2.r)
    /\ {p4est_node_transform(k, arg) : k \in 0..3} = 0..3

C14_Witness ==
  /\ op = "node_transform"
  /\ arg = 1 /\ lev = 1
  /\ out.n1 = 3
  /\ out.q1.r = RootCorner(3)

(***************************************************************************)
(* SpecAncestor: an extended quadrant qa and a level lev <= qa.level; the  *)
(* action takes the ancestor id at lev and climbs to the ancestor at lev.  *)
(***************************************************************************)
\* p4est_quadrant_parent applied until the level is l (NoQuad: an assertion
\* of parent failed)
RECURSIVE AncestorAt(_, _, _)
AncestorAt(D, q, l) ==
  IF q.level <= l THEN q
  ELSE IF ~p4est_quadrant_parent_pre(D, q) THEN NoQuad
  ELSE AncestorAt(D, p4est_quadrant_parent(D, q), l)

InitAncestor ==
  /\ dim \in {2, 3}
  /\ qa \in ExtQuads(dim, MaxLevM)
  /\ lev \in MortonLevels(qa)
  /\ qb = NoQuad /\ qc = NoQuad /\ qd = NoQuad
  /\ arg = 0
  /\ tags = <<0, 0>>
  /\ arr = <<>> /\ stack = <<>> /\ calls = {}
  /\ op = "init"
  /\ out = [kind |-> "none"]

AncestorId ==
  /\ op = "init"
  /\ op' = "ancestor_id"
  /\ out' = [kind |-> "ancid",
             pre |-> p4est_quadrant_ancestor_id_pre(dim, qa, lev),
             id |-> p4est_quadrant_ancestor_id(dim, qa, lev),
             anc |-> AncestorAt(dim, qa, lev)]
  /\ UNCHANGED <<arr, stack, calls, arg, dim, qa, qb, qc, qd, lev, tags>>

NextAncestor == AncestorId

SpecAncestor == InitAncestor /\ [][NextAncestor]_vars

\* bit i of the index n
IndexBit(n, i) == (n \div Pow2(i)) % 2

\* C15: for an extended quadrant q and 1 <= l <= q.level, ancestor_id (q, l)
\* is the child_id of the ancestor of q at level l reached by q.level - l
\* parent steps; for l = 0 it is 0; bit i of the index is set exactly when
\* the level l bit of the coordinate on axis i is set.
C15_AncestorIdIsChildId ==
  op = "ancestor_id" =>
    /\ out.pre
    /\ IF lev = 0 THEN out.id = 0
       ELSE /\ out.anc # NoQuad
            /\ out.anc.level = lev
            /\ out.id = p4est_quadrant_child_id(dim, out.anc)
            /\ IndexBit(out.id, 0) = Bit(qa.x, P4EST_MAXLEVEL(dim) - lev)
            /\ IndexBit(out.id, 1) = Bit(qa.y, P4EST_MAXLEVEL(dim) - lev)
            /\ IndexBit(out.id, 2) =
                 (IF dim = 3 THEN Bit(qa.z, P4EST_MAXLEVEL(dim) - lev) ELSE 0)

C15_Witness ==
  /\ op = "ancestor_id"
  /\ dim = 3
  /\ 1 <= lev /\ lev < qa.level
  /\ qa.x < 0
  /\ out.id # p4est_quadrant_child_id(dim, qa)
  /\ out.id = 5

(***************************************************************************)
(* Bound search in a sorted quadrant array (p8est_search.h declares the    *)
(* two functions; their definitions are modelled from the specification:   *)
(* a binary search whose first probe is the guess).  array is a sequence,  *)
(* array[i] of the code is element i + 1; the result is an index of the    *)
(* code, or -1.                                                            *)
(***************************************************************************)
\* longest array drawn
MaxArr == 3

RECURSIVE LowerSearch(_, _, _, _, _, _)
LowerSearch(D, array, q, quad_low, quad_high, guess) ==
  IF /\ p4est_quadrant_compare(D, q, array[guess + 1]) <= 0
     /\ guess > 0
     /\ p4est_quadrant_compare(D, q, array[guess]) <= 0
    THEN \* the guess is >= q, and so is the element below it
         LowerSearch(D, array, q, quad_low, guess - 1, (quad_low + guess) \div 2)
  ELSE IF p4est_quadrant_compare(D, q, array[guess + 1]) > 0
    THEN \* the guess is lower than q
         IF guess + 1 > quad_high THEN -1
         ELSE LowerSearch(D, array, q, guess + 1, quad_high,
                          (guess + 1 + quad_high) \div 2)
  ELSE guess

\* mutant: a guess that is >= q is returned without a look at the elements
\* below it
find_lower_bound_StopEarly(D, array, q, guess) ==
  IF Len(array) = 0 THEN -1
  ELSE IF p4est_quadrant_compare(D, q, array[guess + 1]) <= 0 THEN guess
  ELSE LowerSearch(D, array, q, 0, Len(array) - 1, guess)

p8est_find_lower_bound(D, array, q, guess) ==
  IF Len(array) = 0 THEN -1
  ELSE LowerSearch(D, array, q, 0, Len(array) - 1, guess)

RECURSIVE HigherSearch(_, _, _, _, _, _)
HigherSearch(D, array, q, quad_low, quad_high, guess) ==
  IF /\ p4est_quadrant_compare(D, array[guess + 1], q) <= 0
     /\ guess < Len(array) - 1
     /\ p4est_quadrant_compare(D, array[guess + 2], q) <= 0
    THEN \* the guess is <= q, and so is the element above it
         HigherSearch(D, array, q, guess + 1, quad_high,
                      (guess + 1 + quad_high) \div 2)
  ELSE IF p4est_quadrant_compare(D, array[guess + 1], q) > 0
    THEN \* the guess is higher than q
         IF guess = 0 \/ guess - 1 < quad_low THEN -1
         ELSE HigherSearch(D, array, q, quad_low, guess - 1,
                           (quad_low + guess) \div 2)
  ELSE guess

p8est_find_higher_bound(D, array, q, guess) ==
  IF Len(array) = 0 THEN -1
  ELSE HigherSearch(D, array, q, 0, Len(array) - 1, guess)

(***************************************************************************)
(* SpecBound: a sorted array arr of valid quadrants, a reference quadrant  *)
(* qa and a guess arg (an index of the array); the actions search.         *)
(***************************************************************************)
\* the quadrants the arrays are made of: the root and its children
BoundQuads(D) == ValidLow(D, 1)

\* the arrays of length n over U, ascending by p4est_quadrant_compare
RECURSIVE SortedArrays(_, _, _)
SortedArrays(D, U, n) ==
  IF n = 0 THEN {<<>>}
  ELSE UNION {{Append(s, u) :
                 u \in {v \in U : n = 1 \/ p4est_quadrant_compare(D, s[n - 1], v) <= 0}} :
              s \in SortedArrays(D, U, n - 1)}

InitBound ==
  /\ dim \in {2, 3}
  /\ \E n \in 0..MaxArr :
       /\ arr \in SortedArrays(dim, BoundQuads(dim), n)
       /\ arg \in 0..(IF n = 0 THEN 0 ELSE n - 1)
  /\ qa \in BoundQuads(dim)
  /\ qb = NoQuad /\ qc = NoQuad /\ qd = NoQuad
  /\ lev = 0
  /\ tags = <<0, 0>>
  /\ stack = <<>> /\ calls = {}
  /\ op = "init"
  /\ out = [kind |-> "none"]

FindLowerBound ==
  /\ op = "init"
  /\ op' = "find_lower_bound"
  /\ out' = [kind |-> "bound", i |-> p8est_find_lower_bound(dim, arr, qa, arg)]
  /\ UNCHANGED <<arr, stack, calls, arg, dim, qa, qb, qc, qd, lev, tags>>

FindHigherBound ==
  /\ op = "init"
  /\ op' = "find_higher_bound"
  /\ out' = [kind |-> "bound", i |-> p8est_find_higher_bound(dim, arr, qa, arg)]
  /\ UNCHANGED <<arr, stack, calls, arg, dim, qa, qb, qc, qd, lev, tags>>

NextBound == FindLowerBound \/ FindHigherBound

SpecBound == InitBound /\ [][NextBound]_vars

\* the indices (of the code) whose element is >= q, <= q
IndicesGeq(D, array, q) ==
  {i \in 0..(Len(array) - 1) : p4est_quadrant_compare(D, array[i + 1], q) >= 0}

IndicesLeq(D, array, q) ==
  {i \in 0..(Len(array) - 1) : p4est_quadrant_compare(D, array[i + 1], q) <= 0}

\* C16: for an array sorted ascending by p4est_quadrant_compare and a
\* reference q, find_lower_bound returns the smallest index i with
\* array[i] >= q and find_higher_bound the largest index i with
\* array[i] <= q, for every guess; each returns -1 when the array is empty
\* or no element qualifies.
C16_BoundSearch ==
  /\ op = "find_lower_bound" =>
       LET S == IndicesGeq(dim, arr, qa)
       IN  IF S = {} THEN out.i = -1
           ELSE out.i \in S /\ \A j \in S : out.i <= j
  /\ op = "find_higher_bound" =>
       LET S == IndicesLeq(dim, arr, qa)
       IN  IF S = {} THEN out.i = -1
           ELSE out.i \in S /\ \A j \in S : out.i >= j

C16_Witness ==
  /\ op = "find_lower_bound"
  /\ Len(arr) = MaxArr
  /\ arg = MaxArr - 1
  /\ out.i = 1
  /\ arr[1] # arr[2] /\ arr[2] = arr[3]
  /\ qa # arr[2]

(***************************************************************************)
(* p8est_split_array (declared in p8est_search.h; modelled from the        *)
(* specification: 2^D - 1 bound searches on the child index at level + 1,  *)
(* each starting where the one before ended).  indices[i] of the code is   *)
(* element i + 1 of the sequence returned.                                 *)
(***************************************************************************)
\* mutant: the search for child i stops at the first element of a child
\* after i
RECURSIVE SplitSearch_After(_, _, _, _, _, _)
SplitSearch_After(D, array, level, i, lo, hi) ==
  IF lo >= hi THEN lo
  ELSE IF p4est_quadrant_ancestor_id(D, array[((lo + hi) \div 2) + 1], level + 1) <= i
    THEN SplitSearch_After(D, array, level, i, ((lo + hi) \div 2) + 1, hi)
  ELSE SplitSearch_After(D, array, level, i, lo, (lo + hi) \div 2)

\* the first index in lo .. hi - 1 whose element lies in child i or a later
\* child of the common ancestor, hi if there is none
RECURSIVE SplitSearch(_, _, _, _, _, _)
SplitSearch(D, array, level, i, lo, hi) ==
  IF lo >= hi THEN lo
  ELSE IF p4est_quadrant_ancestor_id(D, array[((lo + hi) \div 2) + 1], level + 1) < i
    THEN SplitSearch(D, array, level, i, ((lo + hi) \div 2) + 1, hi)
  ELSE SplitSearch(D, array, level, i, lo, (lo + hi) \div 2)

\* indices[i .. 2^D], the search for child i starting at index lo
RECURSIVE SplitFrom(_, _, _, _, _)
SplitFrom(D, array, level, i, lo) ==
  IF i = P4EST_CHILDREN(D) THEN <<Len(array)>>
  ELSE <<SplitSearch(D, array, level, i, lo, Len(array))>>
         \o SplitFrom(D, array, level, i + 1,
                      SplitSearch(D, array, level, i, lo, Len(array)))

p8est_split_array(D, array, level) == <<0>> \o SplitFrom(D, array, level, 1, 0)

(***************************************************************************)
(* SpecSplit: a quadrant qa of level lev and a sorted array arr of         *)
(* descendants of qa; the action splits the array.                         *)
(***************************************************************************)
\* the descendants of a at level l
DescendantsAt(D, a, l) ==
  LET h == P4EST_QUADRANT_LEN(D, l)
      K == 0..(Pow2(l - a.level) - 1)
  IN  {Quad(a.x + i * h, a.y + j * h, IF D = 3 THEN a.z + k * h ELSE a.z, l) :
         i \in K, j \in K, k \in IF D = 3 THEN K ELSE {0}}

\* the common ancestors drawn: the root, a child of the root, a quadrant
\* whose children are of the finest level
SplitAncestors(D) ==
  {Quad(0, 0, 0, 0),
   Quad(P4EST_QUADRANT_LEN(D, 1), 0, 0, 1),
   Quad(P4EST_LAST_OFFSET(D, P4EST_QMAXLEVEL(D) - 1), 0, 0, P4EST_QMAXLEVEL(D) - 1)}

\* the quadrants below a that the arrays are made of
SplitQuads(D, a) ==
  UNION {DescendantsAt(D, a, l) :
           l \in (a.level + 1)..Min(a.level + 4 - D, P4EST_QMAXLEVEL(D))}

InitSplit ==
  /\ dim \in {2, 3}
  /\ qa \in SplitAncestors(dim)
  /\ lev = qa.level
  /\ \E n \in 0..MaxArr : arr \in SortedArrays(dim, SplitQuads(dim, qa), n)
  /\ qb = NoQuad /\ qc = NoQuad /\ qd = NoQuad
  /\ arg = 0
  /\ tags = <<0, 0>>
  /\ stack = <<>> /\ calls = {}
  /\ op = "init"
  /\ out = [kind |-> "none"]

SplitArray ==
  /\ op = "init"
  /\ op' = "split_array"
  /\ out' = [kind |-> "split", indices |-> p8est_split_array(dim, arr, lev)]
  /\ UNCHANGED <<arr, stack, calls, arg, dim, qa, qb, qc, qd, lev, tags>>

NextSplit == SplitArray

SpecSplit == InitSplit /\ [][NextSplit]_vars

\* child i of the quadrant a
ChildOf(D, a, i) ==
  LET h == P4EST_QUADRANT_LEN(D, a.level + 1)
  IN  Quad(a.x + (i % 2) * h, a.y + ((i \div 2) % 2) * h,
           IF D = 3 THEN a.z + (i \div 4) * h ELSE a.z, a.level + 1)

\* the indices (of the code) of the elements that are child i of a or
\* descend from it
IndicesInChild(D, array, a, i) ==
  {j \in 0..(Len(array) - 1) :
     \/ array[j + 1] = ChildOf(D, a, i)
     \/ p4est_quadrant_is_ancestor(D, ChildOf(D, a, i), array[j + 1])}

\* C17: for a sorted array of quadrants that descend from one ancestor at
\* the given level, split_array gives indices[0] = 0, indices[2^D] = the
\* array length, a non-decreasing sequence, and for every child i the
\* positions indices[i] .. indices[i+1] - 1 are exactly those of the
\* elements in child i; indices[i] = indices[i+1] exactly when child i has
\* no element.
C17_SplitPartitions ==
  op = "split_array" =>
    /\ Len(out.indices) = P4EST_CHILDREN(dim) + 1
    /\ out.indices[1] = 0
    /\ out.indices[P4EST_CHILDREN(dim) + 1] = Len(arr)
    /\ \A i \in 0..(P4EST_CHILDREN(dim) - 1) :
         /\ out.indices[i + 1] <= out.indices[i + 2]
         /\ out.indices[i + 1]..(out.indices[i + 2] - 1)
              = IndicesInChild(dim, arr, qa, i)
         /\ (out.indices[i + 1] = out.indices[i + 2]
               <=> IndicesInChild(dim, arr, qa, i) = {})

C17_Witness ==
  /\ op = "split_array"
  /\ dim = 2 /\ lev = 1
  /\ Len(arr) = MaxArr
  /\ out.indices[2] = 0
  /\ out.indices[3] = 2
  /\ out.indices[4] = 2
  /\ arr[1].level # arr[2].level


(***************************************************************************)
(* The search engine p8est_search: the top-down recursion over one tree.   *)
(* arr is the tree's sorted array of leaves, stack holds the pending nodes *)
(* of the recursion (the next one to run first), calls is the history of   *)
(* the callback invocations.                                               *)
(***************************************************************************)
\* the number of points handed to the search is 1..MaxPoints
MaxPoints == 2
\* the trees searched have 1..MaxLeaves quadrants
MaxLeaves == 2

\* the part of the tree's array that lies in the quadrant of the frame f
SearchView(array, f) == SubSeq(array, f.lo + 1, f.hi)

\* the quadrant of the frame is present verbatim in the tree's array
SearchIsLeaf(D, array, f) ==
  /\ f.hi - f.lo = 1
  /\ p4est_quadrant_is_equal(D, array[f.lo + 1], f.quad)

\* mutant: the children are handed all points of the frame, the rejected
\* ones included
SearchChildren_AllPoints(D, array, f, keep) ==
  LET split == p8est_split_array(D, SearchView(array, f), f.quad.level)
      all == [i \in 1..P4EST_CHILDREN(D) |->
                [quad |-> ChildOf(D, f.quad, i - 1),
                 lo |-> f.lo + split[i], hi |-> f.lo + split[i + 1],
                 points |-> f.points]]
  IN  SelectSeq(all, LAMBDA c : c.lo < c.hi)

\* the frames of the children that contain quadrants of the tree, child 0
\* first, each with the retained points
SearchChildren(D, array, f, keep) ==
  LET split == p8est_split_array(D, SearchView(array, f), f.quad.level)
      all == [i \in 1..P4EST_CHILDREN(D) |->
                [quad |-> ChildOf(D, f.quad, i - 1),
                 lo |-> f.lo + split[i], hi |-> f.lo + split[i + 1],
                 points |-> keep]]
  IN  SelectSeq(all, LAMBDA c : c.lo < c.hi)

\* the invocations of the callback at the frame f when it returns true
\* exactly for the points in keep
SearchCalls(D, array, f, keep) ==
  {[quad |-> f.quad, point |-> p, is_leaf |-> SearchIsLeaf(D, array, f),
    res |-> p \in keep] : p \in f.points}

\* the frames that one node of the recursion leaves behind
SearchRecursion(D, array, f, keep) ==
  IF SearchIsLeaf(D, array, f) \/ keep = {}
    THEN <<>>
    ELSE SearchChildren(D, array, f, keep)

(***************************************************************************)
(* SpecSearch: p8est_search over one tree, the callback's answers chosen   *)
(* freely at every quadrant.                                               *)
(***************************************************************************)
RootQuad == Quad(0, 0, 0, 0)

\* the children that the trees are made of: all four in 2D, four of the
\* eight (one per z-order quarter, both z halves) in 3D
SearchIds(D) == IF D = 2 THEN 0..3 ELSE {0, 3, 4, 7}

\* the quadrants the trees are made of: the root, children of the root, and
\* children of the root's first child
SearchQuads(D) ==
  {RootQuad} \cup {ChildOf(D, RootQuad, i) : i \in SearchIds(D)}
             \cup {ChildOf(D, ChildOf(D, RootQuad, 0), i) : i \in SearchIds(D)}

\* no element of the array is equal to or an ancestor of another
IsLinear(D, array) ==
  \A i, j \in 1..Len(array) :
    i < j => /\ ~p4est_quadrant_is_equal(D, array[i], array[j])
             /\ ~p4est_quadrant_is_ancestor(D, array[i], array[j])

SearchTrees(D) ==
  UNION {{a \in SortedArrays(D, SearchQuads(D), n) : IsLinear(D, a)} : n \in 1..MaxLeaves}

InitSearch ==
  /\ dim \in {2, 3}
  /\ arr \in SearchTrees(dim)
  /\ arg \in 1..MaxPoints
  /\ qa = NoQuad /\ qb = NoQuad /\ qc = NoQuad /\ qd = NoQuad
  /\ lev = 0
  /\ tags = <<0, 0>>
  /\ stack = <<>> /\ calls = {}
  /\ op = "init"
  /\ out = [kind |-> "none"]

\* p8est_search enters the tree at its root with all points
SearchTree ==
  /\ op = "init"
  /\ op' = "search"
  /\ stack' = <<[quad |-> RootQuad, lo |-> 0, hi |-> Len(arr), points |-> 1..arg]>>
  /\ UNCHANGED <<arr, calls, arg, dim, qa, qb, qc, qd, lev, tags, out>>

\* one node of the recursion: the callback is asked for every point of
\* the frame, then the children are entered
SearchQuadrant ==
  /\ op = "search"
  /\ stack # <<>>
  /\ \E keep \in SUBSET Head(stack).points :
       /\ calls' = calls \cup SearchCalls(dim, arr, Head(stack), keep)
       /\ stack' = SearchRecursion(dim, arr, Head(stack), keep) \o Tail(stack)
  /\ UNCHANGED <<arr, arg, dim, qa, qb, qc, qd, lev, tags, op, out>>

\* the recursion has returned
SearchReturn ==
  /\ op = "search"
  /\ stack = <<>>
  /\ op' = "done"
  /\ UNCHANGED <<arr, stack, calls, arg, dim, qa, qb, qc, qd, lev, tags, out>>

NextSearch == SearchTree \/ SearchQuadrant \/ SearchReturn

SpecSearch == InitSearch /\ [][NextSearch]_vars

\* the callback was invoked at the quadrant q before this step
Visited(q) == \E d \in calls : d.quad = q

\* the callback returned true for some point at the quadrant q before this
\* step
Retained(q) == \E d \in calls : d.quad = q /\ d.res

\* C18: in every step of the search, a callback invocation for a point at a
\* non-root quadrant Q comes after an invocation for the same point at the
\* parent of Q that returned true, and every quadrant visited earlier
\* that is an ancestor of Q was not a leaf and retained some point.
C18_SearchDescent ==
  [][\A c \in calls' \ calls :
       /\ c.quad.level > 0 =>
            \E d \in calls :
              /\ d.quad = p4est_quadrant_parent(dim, c.quad)
              /\ d.point = c.point
              /\ d.res
       /\ c.quad.level > 0 => Visited(p4est_quadrant_parent(dim, c.quad))
       /\ \A d \in calls :
            p4est_quadrant_is_ancestor(dim, d.quad, c.quad) =>
              ~d.is_leaf /\ Retained(d.quad)
       /\ \A d \in calls :
            (p4est_quadrant_is_ancestor(dim, d.quad, c.quad)
               /\ d.point = c.point) => d.res]_vars

\* a search that has returned, in which one point was rejected at a child
\* of the root while the other went on to a quadrant of level 2
C18_Witness ==
  /\ op = "done"
  /\ \E c, d \in calls :
       /\ c.quad.level = 2
       /\ d.quad = p4est_quadrant_parent(dim, c.quad)
       /\ d.point # c.point
       /\ ~d.res
       /\ c.is_leaf /\ c.res


(***************************************************************************)
(* The sibling test and its reference.                                     *)
(***************************************************************************)
p4est_quadrant_is_sibling_pre(D, q1, q2) ==
  p4est_quadrant_is_extended(D, q1) /\ p4est_quadrant_is_extended(D, q2)

\* The test of exclorz in the returned conjunction stands under
\* "#ifdef P4_To_P8", a name that neither build defines (the 3D build
\* defines P4_TO_P8): the conjunction tests x and y only, for D = 2 and
\* for D = 3.
p4est_quadrant_is_sibling(D, q1, q2) ==
  LET exclorx == Xor32(q1.x, q2.x)
      exclory == Xor32(q1.y, q2.y)
      exclorz == Xor32(q1.z, q2.z)
      mask == Not32(P4EST_QUADRANT_LEN(D, q1.level))
  IN  IF q1.level = 0 THEN FALSE
      ELSE IF exclorx = 0 /\ exclory = 0 /\ (D = 3 => exclorz = 0) THEN FALSE
      ELSE /\ q1.level = q2.level
           /\ And32(exclorx, mask) = 0
           /\ And32(exclory, mask) = 0

\* the calls of p4est_quadrant_parent do not abort
p4est_quadrant_is_sibling_D_pre(D, q1, q2) ==
  \/ q1.level = 0
  \/ p4est_quadrant_is_equal(D, q1, q2)
  \/ p4est_quadrant_parent_pre(D, q1) /\ p4est_quadrant_parent_pre(D, q2)

p4est_quadrant_is_sibling_D(D, q1, q2) ==
  IF q1.level = 0 THEN FALSE
  ELSE IF p4est_quadrant_is_equal(D, q1, q2) THEN FALSE
  ELSE p4est_quadrant_is_equal(D, p4est_quadrant_parent(D, q1),
                               p4est_quadrant_parent(D, q2))

(***************************************************************************)
(* SpecSibling: two extended quadrants of level >= 1; the action applies   *)
(* both sibling tests.                                                     *)
(***************************************************************************)
SiblingQuads(D) ==
  {q \in ExtLow(D, MaxLevE) \cup (IF D = 2 THEN ExtDeep(2, DeepLevels(2)) ELSE {}) :
     q.level >= 1}

InitSibling ==
  /\ dim \in {2, 3}
  /\ qa \in SiblingQuads(dim)
  /\ qb \in SiblingQuads(dim)
  /\ qc = NoQuad /\ qd = NoQuad
  /\ lev = 0
  /\ arg = 0
  /\ tags = <<0, 0>>
  /\ arr = <<>> /\ stack = <<>> /\ calls = {}
  /\ op = "init"
  /\ out = [kind |-> "none"]

IsSibling ==
  /\ op = "init"
  /\ p4est_quadrant_is_sibling_pre(dim, qa, qb)
  /\ p4est_quadrant_is_sibling_D_pre(dim, qa, qb)
  /\ op' = "is_sibling"
  /\ out' = [kind |-> "sibling",
             fast |-> p4est_quadrant_is_sibling(dim, qa, qb),
             slow |-> p4est_quadrant_is_sibling_D(dim, qa, qb)]
  /\ UNCHANGED <<arr, stack, calls, arg, dim, qa, qb, qc, qd, lev, tags>>

NextSibling == IsSibling

SpecSibling == InitSibling /\ [][NextSibling]_vars

\* C19: for extended quadrants q1, q2 of level >= 1, in the 2D and in the
\* 3D build, p4est_quadrant_is_sibling returns what the reference
\* p4est_quadrant_is_sibling_D returns, which is true exactly when q1 # q2
\* and parent(q1) = parent(q2).
C19_SiblingAgrees ==
  op = "is_sibling" =>
    /\ out.fast = out.slow
    /\ out.slow = (qa # qb /\ p4est_quadrant_parent(dim, qa)
                                = p4est_quadrant_parent(dim, qb))


(***************************************************************************)
(* First and last descendants, and the test of a quadrant against the      *)
(* range of a tree.  A tree is the record of the fields the test reads:    *)
(* elem_count of its quadrant array, first_desc and last_desc.             *)
(***************************************************************************)
p4est_quadrant_descendent_pre(D, q, level) ==
  /\ p4est_quadrant_is_extended(D, q)
  /\ q.level <= level /\ level <= P4EST_QMAXLEVEL(D)

p4est_quadrant_first_descendent(D, q, level) ==
  Quad(q.x, q.y, q.z, level)

\* mutant: the shift to the far corner of q is not added
last_descendent_NoShift(D, q, level) ==
  Quad(q.x, q.y, q.z, level)

p4est_quadrant_last_descendent(D, q, level) ==
  LET shift == P4EST_QUADRANT_LEN(D, q.level) - P4EST_QUADRANT_LEN(D, level)
  IN  Quad(Add32(q.x, shift), Add32(q.y, shift),
           IF D = 3 THEN Add32(q.z, shift) ELSE q.z, level)

p4est_quadrant_is_inside_tree_pre(D, tree, q) ==
  /\ p4est_quadrant_is_valid(D, q)
  /\ tree.elem_count # 0 =>
       /\ p4est_quadrant_is_valid(D, tree.first_desc)
       /\ p4est_quadrant_is_valid(D, tree.last_desc)
       /\ p4est_quadrant_descendent_pre(D, q, P4EST_QMAXLEVEL(D))

\* the second test compares last_desc with q itself; the last descendant
\* computed before it is not read
p4est_quadrant_is_inside_tree(D, tree, q) ==
  IF tree.elem_count = 0 THEN FALSE
  ELSE IF p4est_quadrant_compare(D,
            p4est_quadrant_first_descendent(D, q, P4EST_QMAXLEVEL(D)),
            tree.first_desc) < 0 THEN FALSE
  ELSE IF p4est_quadrant_compare(D, tree.last_desc, q) < 0 THEN FALSE
  ELSE TRUE

(***************************************************************************)
(* SpecTree: a valid quadrant qa and a tree with arg quadrants whose       *)
(* markers are qb = first_desc <= qc = last_desc.                          *)
(***************************************************************************)
\* the levels whose quadrants are enumerated completely
TreeLevel(D) == MaxLevV + 1 - D

FirstMarkers(D) ==
  {p4est_quadrant_first_descendent(D, a, P4EST_QMAXLEVEL(D)) :
     a \in ValidLow(D, TreeLevel(D))}

LastMarkers(D) ==
  {p4est_quadrant_last_descendent(D, a, P4EST_QMAXLEVEL(D)) :
     a \in ValidLow(D, TreeLevel(D))}

InitTree ==
  /\ dim \in {2, 3}
  /\ qa \in ValidQuads(dim, TreeLevel(dim))
  /\ qb \in FirstMarkers(dim)
  /\ qc \in LastMarkers(dim)
  /\ p4est_quadrant_compare(dim, qb, qc) <= 0
  /\ arg \in 0..1
  /\ qd = NoQuad
  /\ lev = 0
  /\ tags = <<0, 0>>
  /\ arr = <<>> /\ stack = <<>> /\ calls = {}
  /\ op = "init"
  /\ out = [kind |-> "none"]

Tree == [elem_count |-> arg, first_desc |-> qb, last_desc |-> qc]

IsInsideTree ==
  /\ op = "init"
  /\ p4est_quadrant_is_inside_tree_pre(dim, Tree, qa)
  /\ op' = "is_inside_tree"
  /\ out' = [kind |-> "inside", res |-> p4est_quadrant_is_inside_tree(dim, Tree, qa)]
  /\ UNCHANGED <<arr, stack, calls, arg, dim, qa, qb, qc, qd, lev, tags>>

NextTree == IsInsideTree

SpecTree == InitTree /\ [][NextTree]_vars

\* C20: for a tree with a non-empty array and valid markers
\* first_desc <= last_desc, is_inside_tree returns true exactly when the
\* first descendant of q at QMAXLEVEL is not before first_desc and the
\* last descendant of q at QMAXLEVEL is not after last_desc; for a tree
\* with an empty array it returns false.
C20_InsideTree ==
  op = "is_inside_tree" =>
    IF arg = 0 THEN out.res = FALSE
    ELSE out.res =
           (/\ p4est_quadrant_compare(dim,
                 p4est_quadrant_first_descendent(dim, qa, P4EST_QMAXLEVEL(dim)), qb) >= 0
            /\ p4est_quadrant_compare(dim,
                 p4est_quadrant_last_descendent(dim, qa, P4EST_QMAXLEVEL(dim)), qc) <= 0)


(***************************************************************************)
(* SpecBlock: two valid quadrants qa = q and qb = r; the action compares r *)
(* with q and with the last descendant of q, and tests r against q as an   *)
(* ancestor.                                                               *)
(***************************************************************************)
\* coarse levels completely, the two finest levels at the edge coordinates,
\* and the first and last descendants of the coarse quadrants
BlockQuads(D) ==
  ValidQuads(D, TreeLevel(D)) \cup FirstMarkers(D) \cup LastMarkers(D)

InitBlock ==
  /\ dim \in {2, 3}
  /\ qa \in BlockQuads(dim)
  /\ qb \in BlockQuads(dim)
  /\ qc = NoQuad /\ qd = NoQuad
  /\ lev = 0
  /\ arg = 0
  /\ tags = <<0, 0>>
  /\ arr = <<>> /\ stack = <<>> /\ calls = {}
  /\ op = "init"
  /\ out = [kind |-> "none"]

CompareBlock ==
  /\ op = "init"
  /\ p4est_quadrant_descendent_pre(dim, qa, P4EST_QMAXLEVEL(dim))
  /\ op' = "block"
  /\ qc' = p4est_quadrant_last_descendent(dim, qa, P4EST_QMAXLEVEL(dim))
  /\ out' = [kind |-> "block",
             equal |-> p4est_quadrant_is_equal(dim, qa, qb),
             anc |-> p4est_quadrant_is_ancestor(dim, qa, qb),
             first |-> p4est_quadrant_compare(dim, qa, qb),
             last |-> p4est_quadrant_compare(dim, qb,
                        p4est_quadrant_last_descendent(dim, qa, P4EST_QMAXLEVEL(dim)))]
  /\ UNCHANGED <<arr, stack, calls, arg, dim, qa, qb, qd, lev, tags>>

NextBlock == CompareBlock

SpecBlock == InitBlock /\ [][NextBlock]_vars

\* C21: for valid quadrants q and r, r equals q or descends from q exactly
\* when compare(q, r) <= 0 and compare(r, last descendant of q at
\* QMAXLEVEL) <= 0.
C21_DescendantsBlock ==
  op = "block" =>
    ((out.equal \/ out.anc) <=> (out.first <= 0 /\ out.last <= 0))

\* r is a proper descendant of q strictly between q and q's last descendant
C21_Witness ==
  /\ op = "block"
  /\ out.anc /\ out.first < 0 /\ out.last < 0
  /\ qa.level = 1 /\ qb.level = P4EST_QMAXLEVEL(dim)
  /\ qa.x > 0


(***************************************************************************)
(* SpecHalf: one valid 2D quadrant qa and a face arg; the action takes the *)
(* two half-size neighbours across the face.                               *)
(***************************************************************************)
InitHalf ==
  /\ dim = 2
  /\ qa \in ValidQuads(2, MaxLevV)
  /\ arg \in 0..3
  /\ qb = NoQuad /\ qc = NoQuad /\ qd = NoQuad
  /\ lev = 0
  /\ tags = <<0, 0>>
  /\ arr = <<>> /\ stack = <<>> /\ calls = {}
  /\ op = "init"
  /\ out = [kind |-> "none"]

\* the assertions on q abort the call; those on n[0], n[1] are recorded
HalfFaceNeighbors ==
  /\ op = "init"
  /\ op' = "half_face_neighbors"
  /\ IF p4est_quadrant_half_face_neighbors_pre(qa)
       THEN LET n == p4est_quadrant_half_face_neighbors(qa, arg)
            IN  /\ out' = [kind |-> "half",
                           abort |-> ~(/\ p4est_quadrant_is_extended(2, n[1])
                                       /\ p4est_quadrant_is_extended(2, n[2]))]
                /\ qb' = n[1]
                /\ qc' = n[2]
       ELSE /\ out' = [kind |-> "half", abort |-> TRUE]
            /\ UNCHANGED <<qb, qc>>
  /\ UNCHANGED <<arr, stack, calls, arg, dim, qa, qd, lev, tags>>

NextHalf == HalfFaceNeighbors

SpecHalf == InitHalf /\ [][NextHalf]_vars

\* the quadrant n of half the size of q lies outside q against its face f
AbutsFace(q, f, n) ==
  LET h == P4EST_QUADRANT_LEN(2, q.level)
      h2 == P4EST_QUADRANT_LEN(2, n.level)
  IN  CASE f = 0 -> n.y + h2 = q.y /\ n.x \in {q.x, q.x + h2}
        [] f = 1 -> n.x = q.x + h /\ n.y \in {q.y, q.y + h2}
        [] f = 2 -> n.y = q.y + h /\ n.x \in {q.x, q.x + h2}
        [] f = 3 -> n.x + h2 = q.x /\ n.y \in {q.y, q.y + h2}

\* C22: for a valid 2D quadrant q of level < QMAXLEVEL and a face f, the
\* half face neighbours n[0], n[1] are two distinct extended quadrants of
\* level q.level + 1, both children of the same-size face neighbour of q,
\* and both lie against face f of q, so that together they cover it.
C22_HalfFaceNeighbors ==
  (op = "half_face_neighbors" /\ qa.level < P4EST_QMAXLEVEL(2)) =>
    /\ ~out.abort
    /\ qb # qc
    /\ \A n \in {qb, qc} :
         /\ p4est_quadrant_is_extended(2, n)
         /\ n.level = qa.level + 1
         /\ p4est_quadrant_parent(2, n) = p4est_quadrant_face_neighbor(2, qa, arg)
         /\ AbutsFace(qa, arg, n)

\* a quadrant at the lower edge of the root: the neighbours across face 0
\* lie outside the root
C22_Witness ==
  /\ op = "half_face_neighbors"
  /\ ~out.abort
  /\ arg = 0 /\ qa.y = 0 /\ qa.level >= 1
  /\ ~p4est_quadrant_is_inside_root(2, qb)
  /\ qc.x > qb.x


(***************************************************************************)
(* SpecNext: two extended quadrants qa = q and qb = r; the action applies  *)
(* the fast successor test and compares the two.                           *)
(***************************************************************************)
\* 2D: levels 0..MaxLevE of the 3x3 domain completely and the two finest
\* levels at the edge coordinates; 3D: one level less, and the finest level
NextQuads(D) ==
  IF D = 2 THEN ExtLow(2, MaxLevE) \cup ExtDeep(2, DeepLevels(2))
  ELSE ExtLow(3, MaxLevE - 1) \cup ExtDeep(3, {P4EST_QMAXLEVEL(3)})

InitNext ==
  /\ dim \in {2, 3}
  /\ qa \in NextQuads(dim)
  /\ qb \in NextQuads(dim)
  /\ qc = NoQuad /\ qd = NoQuad
  /\ lev = 0
  /\ arg = 0
  /\ tags = <<0, 0>>
  /\ arr = <<>> /\ stack = <<>> /\ calls = {}
  /\ op = "init"
  /\ out = [kind |-> "none"]

IsNextCompare ==
  /\ op = "init"
  /\ p4est_quadrant_is_extended(dim, qa)
  /\ p4est_quadrant_is_extended(dim, qb)
  /\ op' = "is_next_compare"
  /\ out' = [kind |-> "next_compare",
             next |-> p4est_quadrant_is_next(dim, qa, qb),
             cmp |-> p4est_quadrant_compare(dim, qa, qb)]
  /\ UNCHANGED <<arr, stack, calls, arg, dim, qa, qb, qc, qd, lev, tags>>

NextNext == IsNextCompare

SpecNext == InitNext /\ [][NextNext]_vars

\* C23: for extended quadrants q and r, is_next (q, r) = true implies
\* compare (q, r) < 0.
C23_NextImpliesLess ==
  op = "is_next_compare" => (out.next => out.cmp < 0)

\* a successor pair outside the root, with q deeper than r
C23_Witness ==
  /\ op = "is_next_compare"
  /\ out.next /\ out.cmp < 0
  /\ qa.level > qb.level
  /\ ~p4est_quadrant_is_inside_root(dim, qa)


(***************************************************************************)
(* Clamped and unclamped nodes.  A call returns r or stops at a failed     *)
(* P4EST_ASSERT (abort).                                                   *)
(***************************************************************************)
p4est_node_clamp_inside(D, n) ==
  IF ~p4est_quadrant_is_node(D, n, FALSE) THEN Abort
  ELSE LET Clamp(v) == IF v = P4EST_ROOT_LEN(D) THEN P4EST_ROOT_LEN(D) - 1 ELSE v
           r == Quad(Clamp(n.x), Clamp(n.y),
                     IF D = 3 THEN Clamp(n.z) ELSE n.z, P4EST_MAXLEVEL(D))
       IN  IF p4est_quadrant_is_node(D, r, TRUE) THEN Return(r) ELSE Abort

\* mutant: the y coordinate is not moved back to the root length
node_unclamp_NoY(D, n) ==
  IF ~p4est_quadrant_is_node(D, n, TRUE) THEN Abort
  ELSE LET Unclamp(v) == IF v = P4EST_ROOT_LEN(D) - 1 THEN P4EST_ROOT_LEN(D) ELSE v
       IN  Return(Quad(Unclamp(n.x), n.y,
                       IF D = 3 THEN Unclamp(n.z) ELSE n.z, n.level))

p4est_node_unclamp(D, n) ==
  IF ~p4est_quadrant_is_node(D, n, TRUE) THEN Abort
  ELSE LET Unclamp(v) == IF v = P4EST_ROOT_LEN(D) - 1 THEN P4EST_ROOT_LEN(D) ELSE v
           r == Quad(Unclamp(n.x), Unclamp(n.y),
                     IF D = 3 THEN Unclamp(n.z) ELSE n.z, n.level)
       IN  IF p4est_quadrant_is_node(D, r, FALSE) THEN Return(r) ELSE Abort

(***************************************************************************)
(* SpecClamp: one node qa, clamped or unclamped; one action clamps an      *)
(* unclamped node and unclamps the result, the other unclamps a clamped    *)
(* node and clamps the result.                                             *)
(***************************************************************************)
\* node coordinates: the corners of the quadrants of level MaxLevE + 1, the
\* finest node positions next to the root's edges, and the clamped top edge
NodeCoords(D) ==
  {k * P4EST_QUADRANT_LEN(D, MaxLevE + 1) : k \in 0..Pow2(MaxLevE + 1)}
    \cup {Pow2(P4EST_MAXLEVEL(D) - P4EST_QMAXLEVEL(D)),
          P4EST_ROOT_LEN(D) - Pow2(P4EST_MAXLEVEL(D) - P4EST_QMAXLEVEL(D)),
          P4EST_ROOT_LEN(D) - 1}

Nodes(D) ==
  {n \in QuadsOver(D, NodeCoords(D), P4EST_MAXLEVEL(D)) :
     p4est_quadrant_is_node(D, n, FALSE) \/ p4est_quadrant_is_node(D, n, TRUE)}

InitClamp ==
  /\ dim \in {2, 3}
  /\ qa \in Nodes(dim)
  /\ qb = NoQuad /\ qc = NoQuad /\ qd = NoQuad
  /\ lev = 0
  /\ arg = 0
  /\ tags = <<0, 0>>
  /\ arr = <<>> /\ stack = <<>> /\ calls = {}
  /\ op = "init"
  /\ out = [kind |-> "none"]

ClampUnclamp ==
  /\ op = "init"
  /\ p4est_quadrant_is_node(dim, qa, FALSE)
  /\ op' = "clamp_unclamp"
  /\ LET c == p4est_node_clamp_inside(dim, qa)
     IN  out' = [kind |-> "clamp", first |-> c,
                 second |-> IF c.abort THEN Abort ELSE p4est_node_unclamp(dim, c.r)]
  /\ UNCHANGED <<arr, stack, calls, arg, dim, qa, qb, qc, qd, lev, tags>>

UnclampClamp ==
  /\ op = "init"
  /\ p4est_quadrant_is_node(dim, qa, TRUE)
  /\ op' = "unclamp_clamp"
  /\ LET u == p4est_node_unclamp(dim, qa)
     IN  out' = [kind |-> "clamp", first |-> u,
                 second |-> IF u.abort THEN Abort ELSE p4est_node_clamp_inside(dim, u.r)]
  /\ UNCHANGED <<arr, stack, calls, arg, dim, qa, qb, qc, qd, lev, tags>>

NextClamp == ClampUnclamp \/ UnclampClamp

SpecClamp == InitClamp /\ [][NextClamp]_vars

\* C24: clamping an unclamped node n gives a clamped node, and unclamping
\* that gives n; unclamping a clamped node m and clamping the result gives
\* m.
C24_ClampRoundTrip ==
  /\ op = "clamp_unclamp" =>
       /\ ~out.first.abort
       /\ p4est_quadrant_is_node(dim, out.first.r, TRUE)
       /\ ~out.second.abort
       /\ out.second.r = qa
  /\ op = "unclamp_clamp" =>
       /\ ~out.first.abort
       /\ p4est_quadrant_is_node(dim, out.first.r, FALSE)
       /\ ~out.second.abort
       /\ out.second.r = qa

\* a node on the top edge of the root in x and in y: the clamp moves both
\* coordinates and the unclamp moves them back
C24_Witness ==
  /\ op = "clamp_unclamp"
  /\ qa.x = P4EST_ROOT_LEN(dim) /\ qa.y = P4EST_ROOT_LEN(dim)
  /\ out.first.r.x = P4EST_ROOT_LEN(dim) - 1
  /\ out.first.r.y = P4EST_ROOT_LEN(dim) - 1
  /\ out.second.r = qa

====
